---- MODULE Spec2Model ----
(***************************************************************************)
(* SCPI instrument sessions of the instrument_control package:             *)
(*   KeithleyPowerSupply  (keithley_power_supply.py)                       *)
(*   KeithleyDMM6500      (keithley_dmm.py)                                *)
(*   KeysightDSOX6004A over SCPIWrapper (keysight_oscilloscope.py,         *)
(*                                       scpi_wrapper.py)                  *)
(*                                                                         *)
(* Every public method is one action.  A method is executed as the         *)
(* sequence of transport calls the code makes (open, write, query, close); *)
(* a fault pattern chosen by the action says which of these calls raises   *)
(* and with what exception class.  Voltages and currents are integers in   *)
(* units of 1e-6 (the resolution of the "{x:.6f}" wire format).            *)
(***************************************************************************)
EXTENDS Integers, Sequences, FiniteSets, TLC

VARIABLES
    psu,      \* the KeithleyPowerSupply object
    psuHw,    \* the power supply on the bench (what the SCPI commands act on)
    dmm,      \* the KeithleyDMM6500 object
    dmmHw,    \* the multimeter on the bench
    scope,    \* the KeysightDSOX6004A object with its SCPIWrapper
    scopeHw,  \* the oscilloscope on the bench
    last,     \* the last method call: name, arguments, outcome, transport log
    ncOp,     \* the method that last failed with the not-connected error
              \* ("untracked" in the specifications that do not follow it)
    gui       \* the TrulyResponsiveAutomationGUI object, its worker threads and
              \* the oscilloscope sessions it has created

vars == <<psu, psuHw, dmm, dmmHw, scope, scopeHw, last, ncOp, gui>>

---------------------------------------------------------------------------
(* Values *)

\* One volt or ampere: the "{x:.6f}" format keeps six decimals.
UV == 1000000

\* Python's Optional: None, or a value.
None == <<>>
Some(x) == <<x>>
Get(o) == o[1]

\* Hardware channel indices of the largest supported model.
ChannelIds == 1..3

\* Input channels of the oscilloscope (max_channels = 4).
ScopeChannels == 1..4

---------------------------------------------------------------------------
(* Text: a Python str is a sequence of one-character strings *)

Whitespace == {" ", "\n", "\t", "\r"}

RECURSIVE LStrip(_)
LStrip(s) == IF s # <<>> /\ Head(s) \in Whitespace THEN LStrip(Tail(s)) ELSE s

RECURSIVE RStrip(_)
RStrip(s) ==
    IF s # <<>> /\ s[Len(s)] \in Whitespace THEN RStrip(SubSeq(s, 1, Len(s) - 1)) ELSE s

\* str.strip()
Strip(s) == RStrip(LStrip(s))

\* str.split(','): the fields between the separators, at least one field.
RECURSIVE SplitFrom(_, _, _)
SplitFrom(s, sep, cur) ==
    IF s = <<>> THEN <<cur>>
    ELSE IF Head(s) = sep THEN <<cur>> \o SplitFrom(Tail(s), sep, <<>>)
    ELSE SplitFrom(Tail(s), sep, Append(cur, Head(s)))

Split(s, sep) == SplitFrom(s, sep, <<>>)

LowerToUpper ==
    [c \in {"a","b","c","d","e","f","g","h","i","j","k","l","m","n","o","p","q",
            "r","s","t","u","v","w","x","y","z"} |->
        CASE c = "a" -> "A" [] c = "b" -> "B" [] c = "c" -> "C" [] c = "d" -> "D"
          [] c = "e" -> "E" [] c = "f" -> "F" [] c = "g" -> "G" [] c = "h" -> "H"
          [] c = "i" -> "I" [] c = "j" -> "J" [] c = "k" -> "K" [] c = "l" -> "L"
          [] c = "m" -> "M" [] c = "n" -> "N" [] c = "o" -> "O" [] c = "p" -> "P"
          [] c = "q" -> "Q" [] c = "r" -> "R" [] c = "s" -> "S" [] c = "t" -> "T"
          [] c = "u" -> "U" [] c = "v" -> "V" [] c = "w" -> "W" [] c = "x" -> "X"
          [] c = "y" -> "Y" [] c = "z" -> "Z"]

\* str.upper()
Upper(s) == [i \in DOMAIN s |-> IF s[i] \in DOMAIN LowerToUpper THEN LowerToUpper[s[i]] ELSE s[i]]

\* sub in s
Contains(s, sub) ==
    \E i \in 0..(Len(s) - Len(sub)) : SubSeq(s, i + 1, i + Len(sub)) = sub

Digits == {"0", "1", "2", "3", "4", "5", "6", "7", "8", "9"}

DigitVal ==
    [c \in Digits |->
        CASE c = "0" -> 0 [] c = "1" -> 1 [] c = "2" -> 2 [] c = "3" -> 3
          [] c = "4" -> 4 [] c = "5" -> 5 [] c = "6" -> 6 [] c = "7" -> 7
          [] c = "8" -> 8 [] c = "9" -> 9]

AllDigits(s) == \A i \in 1..Len(s) : s[i] \in Digits

RECURSIVE ToInt(_)
ToInt(s) == IF s = <<>> THEN 0 ELSE 10 * ToInt(SubSeq(s, 1, Len(s) - 1)) + DigitVal[s[Len(s)]]

RECURSIVE Pow10(_)
Pow10(n) == IF n <= 0 THEN 1 ELSE 10 * Pow10(n - 1)

\* Index of the first character of s that is in cs, or 0.
IndexOf(s, cs) ==
    IF \E i \in 1..Len(s) : s[i] \in cs
    THEN CHOOSE i \in 1..Len(s) : s[i] \in cs /\ \A j \in 1..(i - 1) : s[j] \notin cs
    ELSE 0

Negative(s) == s # <<>> /\ s[1] = "-"
Unsigned(s) == IF s # <<>> /\ s[1] \in {"+", "-"} THEN Tail(s) ELSE s

Before(s, i) == IF i = 0 THEN s ELSE SubSeq(s, 1, i - 1)
After(s, i) == IF i = 0 THEN <<>> ELSE SubSeq(s, i + 1, Len(s))

\* d * 10^k in whole units.
Scaled(d, k) == IF k >= 0 THEN d * Pow10(k) ELSE d \div Pow10(0 - k)

SignedInt(s) == IF Negative(s) THEN 0 - ToInt(Unsigned(s)) ELSE ToInt(Unsigned(s))

\* The value of whole.frac E expo in units of 1e-6, None when float() raises.
FloatValue(whole, frac, hasExp, expo, neg) ==
    IF ~(/\ AllDigits(whole) /\ AllDigits(frac) /\ Len(whole) + Len(frac) >= 1
         /\ (hasExp => Unsigned(expo) # <<>> /\ AllDigits(Unsigned(expo))))
    THEN None
    ELSE Some((IF neg THEN 0 - 1 ELSE 1)
              * Scaled(ToInt(whole \o frac), 6 - Len(frac) + SignedInt(expo)))

FloatMantissa(mant, hasExp, expo, neg) ==
    IF mant # <<>> /\ After(mant, IndexOf(mant, {"."})) # <<>>
       /\ IndexOf(After(mant, IndexOf(mant, {"."})), {"."}) # 0
    THEN None
    ELSE FloatValue(Before(mant, IndexOf(mant, {"."})), After(mant, IndexOf(mant, {"."})),
                    hasExp, expo, neg)

FloatUnsigned(u, neg) ==
    FloatMantissa(Before(u, IndexOf(u, {"e", "E"})), IndexOf(u, {"e", "E"}) # 0,
                  After(u, IndexOf(u, {"e", "E"})), neg)

\* float(text) of a decimal literal with optional sign, fraction and exponent
\* (Python's "inf", "nan" and digit-group underscores are not among the texts).
ParseFloat(text) == FloatUnsigned(Unsigned(Strip(text)), Negative(Strip(text)))

---------------------------------------------------------------------------
(* Transport faults *)

\* VisaIOError, or any other exception class (pyvisa InvalidSession, OSError...).
FaultKinds == {"visa", "other"}

NoFault == [pos |-> 0, kind |-> "ok", sticky |-> FALSE]

\* One call of the method raises (sticky: so does every later one, a dead link).
FaultPatterns(n) ==
    {NoFault} \cup [pos : 1..n, kind : FaultKinds, sticky : BOOLEAN]

NoFaults == {NoFault}

\* Outcome of the n-th transport call of a method under pattern f.
FaultAt(f, n) ==
    IF f.pos >= 1 /\ (n = f.pos \/ (f.sticky /\ n > f.pos)) THEN f.kind ELSE "ok"

Entry(cmd, arg, st) == [cmd |-> cmd, arg |-> arg, ok |-> (st = "ok")]

---------------------------------------------------------------------------
(* The instruments on the bench *)

\* "*RST  # Reset to known state": outputs off, but for a channel whose output
\* stage follows no command (hw.stuck); the setpoint a reset leaves is
\* the instrument's own default (rstVolt), which the driver does not rely on.
HwReset(hw) ==
    [hw EXCEPT !.sel = 1,
               !.out = [c \in ChannelIds |-> c \in hw.stuck /\ hw.out[c]],
               !.volt = [c \in ChannelIds |-> hw.rstVolt],
               !.ovpOn = [c \in ChannelIds |-> FALSE]]

\* Effect of a command that reached the instrument.
HwWrite(hw, cmd, arg) ==
    CASE cmd = "INST:SEL" -> IF arg \in ChannelIds THEN [hw EXCEPT !.sel = arg] ELSE hw
      [] cmd = "VOLT"     -> [hw EXCEPT !.volt[hw.sel] = arg]
      [] cmd = "CURR"     -> [hw EXCEPT !.curr[hw.sel] = arg]
      [] cmd = "OUTP"     -> IF hw.sel \in hw.stuck THEN hw
                             ELSE [hw EXCEPT !.out[hw.sel] = (arg = 1)]
      [] cmd = "OVP:LEV"  -> [hw EXCEPT !.ovp[hw.sel] = arg]
      [] cmd = "OVP:STAT" -> [hw EXCEPT !.ovpOn[hw.sel] = (arg = 1)]
      [] cmd = "*RST"     -> HwReset(hw)
      [] cmd = "SENS:FUNC" -> [hw EXCEPT !.func = arg]
      [] cmd = "SYST:PRES" -> [hw EXCEPT !.func = "VOLT:DC"]
      [] cmd = "CHAN:DISP" -> [hw EXCEPT !.display[arg.channel] = arg.value]
      [] cmd = "CHAN:SCAL" -> [hw EXCEPT !.scale[arg.channel] = arg.value]
      [] cmd = "CHAN:OFFS" -> [hw EXCEPT !.offset[arg.channel] = arg.value]
      [] cmd = "CHAN:COUP" -> [hw EXCEPT !.coupling[arg.channel] = Upper(arg.value)]
      [] cmd = "CHAN:PROB" -> [hw EXCEPT !.probe[arg.channel] = arg.value]
      [] OTHER            -> hw

\* Answer of the instrument to a query (the identification is hw.idn).  The
\* power supply answers a measurement query with the text it has ready
\* (hw.meas); the multimeter answers its k-th :READ? with the k-th text of hw.reads.
HwQuery(hw, cmd) ==
    CASE cmd = "OUTP?" -> IF hw.out[hw.sel] THEN 1 ELSE 0
      [] cmd = "VOLT?" -> hw.volt[hw.sel]
      [] cmd = "CURR?" -> hw.curr[hw.sel]
      [] cmd = "MEAS:VOLT?" -> hw.meas.voltage
      [] cmd = "MEAS:CURR?" -> hw.meas.current
      [] cmd = "READ?" -> IF hw.seen < Len(hw.reads) THEN hw.reads[hw.seen + 1] ELSE <<>>
      [] OTHER         -> 1

\* The instrument after it answered a query: a reading is given out once.
HwQueried(hw, cmd, st) ==
    IF cmd = "READ?" /\ st = "ok" THEN [hw EXCEPT !.seen = hw.seen + 1] ELSE hw

\* A transport call that ended with status st, as it is logged.
Logged(m, cmd, arg, st) == [m EXCEPT !.n = m.n + 1, !.log = Append(m.log, Entry(cmd, arg, st))]

WriteAs(m, cmd, arg, st) ==
    [m  |-> Logged([m EXCEPT !.hw = IF st = "ok" THEN HwWrite(m.hw, cmd, arg) ELSE m.hw],
                   cmd, arg, st),
     st |-> st]

\* self._instrument.write(cmd) as the (m.n+1)-th transport call.
Write(m, f, cmd, arg) == WriteAs(m, cmd, arg, FaultAt(f, m.n + 1))

\* self._instrument.query(cmd) as the (m.n+1)-th transport call.
Query(m, f, cmd) ==
    [m   |-> Logged([m EXCEPT !.hw = HwQueried(m.hw, cmd, FaultAt(f, m.n + 1))],
                    cmd, 0, FaultAt(f, m.n + 1)),
     st  |-> FaultAt(f, m.n + 1),
     val |-> HwQuery(m.hw, cmd)]

\* time.sleep(seconds) between two samples; it is no transport call.
Sleep(m, seconds) == [m EXCEPT !.log = Append(m.log, Entry("sleep", seconds, "ok"))]

\* A call on the library or on a handle that reaches no instrument.
Call(m, f, cmd) ==
    [m |-> Logged(m, cmd, 0, FaultAt(f, m.n + 1)), st |-> FaultAt(f, m.n + 1)]

\* Consecutive writes up to the first one that raises.
RECURSIVE Writes(_, _, _)
WritesNext(r, f, rest) == IF r.st # "ok" THEN r ELSE Writes(r.m, f, rest)
Writes(m, f, cmds) ==
    IF cmds = <<>> THEN [m |-> m, st |-> "ok"]
    ELSE WritesNext(Write(m, f, cmds[1][1], cmds[1][2]), f, Tail(cmds))

Machine(hw) == [hw |-> hw, n |-> 0, log |-> <<>>]

---------------------------------------------------------------------------
(* KeithleyPowerSupply *)

\* Attributes set by __init__.
PsuNew ==
    [connected    |-> FALSE,
     inst         |-> "None",      \* _instrument: "None", "open" or "closed"
     rm           |-> "None",      \* _resource_manager
     max_channels |-> 3,
     max_voltage  |-> 30 * UV,
     max_current  |-> 3 * UV,
     configs      |-> [c \in ChannelIds |-> None]]   \* _channel_configs

\* Limits by model substring; an unknown model leaves the attributes as they are.
\* A driver that keeps the constructor's limits whatever model answers.
KeepLimits(s, model) == s

_configure_model_parameters(s, model) ==
    LET model_upper == Upper(model) IN
    IF Contains(model_upper, <<"2","2","3","0">>) THEN
        [s EXCEPT !.max_channels = 3, !.max_voltage = 30 * UV, !.max_current = 3 * UV]
    ELSE IF Contains(model_upper, <<"2","2","3","1">>) THEN
        [s EXCEPT !.max_channels = 3, !.max_voltage = 30 * UV, !.max_current = 3 * UV]
    ELSE IF Contains(model_upper, <<"2","2","8","0">>) THEN
        [s EXCEPT !.max_channels = 1, !.max_voltage = 72 * UV, !.max_current = 6 * UV]
    ELSE IF Contains(model_upper, <<"2","2","6","0">>)
            \/ Contains(model_upper, <<"2","2","6","8">>) THEN
        [s EXCEPT !.max_channels = 1, !.max_voltage = 600 * UV, !.max_current = 10 * UV]
    ELSE s

\* The manufacturer field taken for the model field.
IdnManufacturer(identification) ==
    Strip(Split(Strip(identification), ",")[1])

\* The model field of an identification response (connect, the parsing lines).
IdnModel(identification) ==
    LET idn_parts == Split(Strip(identification), ",") IN
    Strip(IF Len(idn_parts) > 1 THEN idn_parts[2] ELSE <<>>)

\* Current limit written by the channel initialisation, ":CURRent 0.1".
InitCurrent == 100000

\* One channel of _initialize_channels_safe_state: the writes up to the first
\* that raises; the exception is logged and the loop goes on.
InitChannel(m, f, channel) ==
    Writes(m, f, << <<"INST:SEL", channel>>, <<"VOLT", 0>>,
                    <<"CURR", InitCurrent>>, <<"OUTP", 0>> >>).m

RECURSIVE InitChannelsFrom(_, _, _, _)
InitChannelsFrom(m, f, channel, max_channels) ==
    IF channel > max_channels THEN m
    ELSE InitChannelsFrom(InitChannel(m, f, channel), f, channel + 1, max_channels)

_initialize_channels_safe_state(m, f, max_channels) ==
    InitChannelsFrom(m, f, 1, max_channels)

\* Sets the enabled flag of the stored record of a channel, if there is one.
SetEnabled(configs, channel, flag) ==
    IF configs[channel] = None THEN configs
    ELSE [configs EXCEPT ![channel] = Some([Get(configs[channel]) EXCEPT !.enabled = flag])]

\* The read-back of _disable_channel_output_internal.
DisableVerified(configs, q, channel) ==
    IF q.st = "ok" /\ q.val = 0
    THEN [m |-> q.m, configs |-> SetEnabled(configs, channel, FALSE), ret |-> TRUE]
    ELSE [m |-> q.m, configs |-> configs, ret |-> FALSE]

\* A disable that also takes the setpoint to 0 V.
DisableAndZero(configs, w, f, channel) ==
    IF w.st # "ok" THEN [m |-> w.m, configs |-> configs, ret |-> FALSE]
    ELSE DisableVerified(configs, Query(Write(w.m, f, "VOLT", 0).m, f, "OUTP?"), channel)

DisableWritten(configs, w, f, channel) ==
    IF w.st # "ok" THEN [m |-> w.m, configs |-> configs, ret |-> FALSE]
    ELSE DisableVerified(configs, Query(w.m, f, "OUTP?"), channel)

\* Select, OFF, read back; every exception becomes False.
_disable_channel_output_internal(configs, m, f, channel) ==
    DisableWritten(configs, Writes(m, f, << <<"INST:SEL", channel>>, <<"OUTP", 0>> >>),
                   f, channel)

\* Number of open handles among the two references of a session.
OpenRefs(s) == (IF s.inst = "open" THEN 1 ELSE 0) + (IF s.rm = "open" THEN 1 ELSE 0)

\* _cleanup_connection: forgets the handles and the records, closes nothing.
_cleanup_connection(s) ==
    [s EXCEPT !.connected = FALSE, !.inst = "None", !.rm = "None",
              !.configs = [c \in ChannelIds |-> None]]

\* The outcome of a method: the object and the instrument after it, what it
\* returned or raised, its transport log, and the handles it opened, closed,
\* and stopped referencing while they were open.
Outcome(s, m, ret, opened, closed, dropped) ==
    [s |-> s, hw |-> m.hw, log |-> m.log, ret |-> ret, val |-> None,
     opened |-> opened, closed |-> closed, dropped |-> dropped]

\* The except clauses of connect: clean up, then False for a VisaIOError and
\* KeithleyPowerSupplyError for anything else.  x: the object with the handles
\* opened and dropped so far.
ConnectFailed(x, m, st) ==
    Outcome(_cleanup_connection(x.s), m, IF st = "visa" THEN "False" ELSE "Error",
            x.opened, 0, x.dropped + OpenRefs(x.s))

\* self._resource_manager = ... / self._instrument = ...: a new open handle
\* replaces whatever the attribute referenced.
Assigned(x, attr) ==
    [s       |-> [x.s EXCEPT ![attr] = "open"],
     opened  |-> x.opened + 1,
     dropped |-> x.dropped + (IF x.s[attr] = "open" THEN 1 ELSE 0)]

\* connect, the end: the operation-complete query, then the connected flag.
ConnectOpc(x, q) ==
    IF q.st # "ok" THEN ConnectFailed(x, q.m, q.st)
    ELSE Outcome([x.s EXCEPT !.connected = TRUE], q.m, "True", x.opened, 0, x.dropped)

\* connect after *CLS and *RST: the channel initialisation.
ConnectReset(x, f, w) ==
    IF w.st # "ok" THEN ConnectFailed(x, w.m, w.st)
    ELSE ConnectOpc(x, Query(_initialize_channels_safe_state(w.m, f, x.s.max_channels),
                             f, "*OPC?"))

\* connect after the identification query: the limits, then *CLS and *RST.
ConnectIdn(x, f, q) ==
    IF q.st # "ok" THEN ConnectFailed(x, q.m, q.st)
    ELSE ConnectReset([x EXCEPT !.s = _configure_model_parameters(x.s, IdnModel(q.m.hw.idn))],
                      f, Writes(q.m, f, << <<"*CLS", 0>>, <<"*RST", 0>> >>))

\* connect after open_resource.
ConnectResource(x, f, c) ==
    IF c.st # "ok" THEN ConnectFailed(x, c.m, c.st)
    ELSE ConnectIdn(Assigned(x, "inst"), f, Query(c.m, f, "*IDN?"))

\* connect after pyvisa.ResourceManager().
ConnectRm(x, f, c) ==
    IF c.st # "ok" THEN ConnectFailed(x, c.m, c.st)
    ELSE ConnectResource(Assigned(x, "rm"), f, Call(c.m, f, "open_resource"))

\* KeithleyPowerSupply.connect
PsuConnectOp(s, hw, f) ==
    ConnectRm([s |-> s, opened |-> 0, dropped |-> 0], f, Call(Machine(hw), f, "rm.open"))

\* The output-disable loop of disconnect; a failing channel is logged.
RECURSIVE DisableFrom(_, _, _, _, _)
\* A loop that ends at the first channel it could not switch off.
DisableUntilFailure(r, f, channel, max_channels) ==
    IF ~r.ret THEN [m |-> r.m, configs |-> r.configs]
    ELSE DisableFrom(r.configs, r.m, f, channel, max_channels)

DisableNext(r, f, channel, max_channels) ==
    DisableFrom(r.configs, r.m, f, channel, max_channels)
DisableFrom(configs, m, f, channel, max_channels) ==
    IF channel > max_channels THEN [m |-> m, configs |-> configs]
    ELSE DisableNext(_disable_channel_output_internal(configs, m, f, channel),
                     f, channel + 1, max_channels)

\* disconnect, the finally clause: _cleanup_connection.
DisconnectFinally(s, m, closed) ==
    Outcome(_cleanup_connection(s), m, "None", 0, closed, OpenRefs(s))

DisconnectRmClosed(s, c, closed) ==
    IF c.st # "ok" THEN DisconnectFinally(s, c.m, closed)
    ELSE DisconnectFinally([s EXCEPT !.rm = "closed"], c.m, closed + 1)

\* disconnect: if self._resource_manager is not None, close it.
DisconnectRm(s, f, m, closed) ==
    IF s.rm = "None" THEN DisconnectFinally(s, m, closed)
    ELSE DisconnectRmClosed(s, Call(m, f, "rm.close"), closed)

DisconnectInstClosed(s, f, c) ==
    IF c.st # "ok" THEN DisconnectFinally(s, c.m, 0)
    ELSE DisconnectRm([s EXCEPT !.inst = "closed"], f, c.m, 1)

\* disconnect after the clear-status write: close the instrument.
DisconnectCls(s, f, w) ==
    IF w.st # "ok" THEN DisconnectFinally(s, w.m, 0)
    ELSE DisconnectInstClosed(s, f, Call(w.m, f, "inst.close"))

\* disconnect after the output-disable loop: the clear-status write.
DisconnectDisabled(s, f, d) ==
    DisconnectCls([s EXCEPT !.configs = d.configs], f, Write(d.m, f, "*CLS", 0))

\* KeithleyPowerSupply.disconnect
PsuDisconnectOp(s, hw, f) ==
    IF s.inst = "None" THEN DisconnectRm(s, f, Machine(hw), 0)
    ELSE DisconnectDisabled(s, f, DisableFrom(s.configs, Machine(hw), f, 1, s.max_channels))

\* Lowest current limit configure_channel accepts (0.001 A).
MinCurrent == 1000

\* Largest voltage change written in one step (_max_voltage_step, 5.0 V).
MaxVoltageStep == 5 * UV

ChannelValid(s, channel) == 1 <= channel /\ channel <= s.max_channels
\* A validation that lets every voltage pass.
VoltageAny(s, voltage) == TRUE

VoltageValid(s, voltage) == 0 <= voltage /\ voltage <= s.max_voltage
CurrentValid(s, current_limit) == MinCurrent <= current_limit /\ current_limit <= s.max_current

Abs(x) == IF x < 0 THEN 0 - x ELSE x

\* a / b rounded to the nearest integer, ties to even (a >= 0, b > 0).
RoundDiv(a, b) ==
    IF 2 * (a % b) < b THEN a \div b
    ELSE IF 2 * (a % b) > b THEN (a \div b) + 1
    ELSE IF (a \div b) % 2 = 0 THEN a \div b ELSE (a \div b) + 1

\* start + (difference / num_steps) * step in the six decimals that are sent.
RampPoint(start, difference, num_steps, step) ==
    start + (difference \div num_steps) * step
          + RoundDiv((difference % num_steps) * step, num_steps)

RECURSIVE RampFrom(_, _, _, _, _, _)
RampNext(w, f, start, difference, num_steps, step) ==
    IF w.st # "ok" THEN w ELSE RampFrom(w.m, f, start, difference, num_steps, step)
RampFrom(m, f, start, difference, num_steps, step) ==
    IF step > num_steps THEN [m |-> m, st |-> "ok"]
    ELSE RampNext(Write(m, f, "VOLT", RampPoint(start, difference, num_steps, step)),
                  f, start, difference, num_steps, step + 1)

\* A ramp that jumps to the target whatever the distance.
RampDirect(m, f, start_voltage, target_voltage) == Write(m, f, "VOLT", target_voltage)

\* Writes the target at once, or in equal steps when it is more than one step away.
_ramp_voltage_safely(m, f, start_voltage, target_voltage) ==
    IF Abs(target_voltage - start_voltage) <= MaxVoltageStep
    THEN Write(m, f, "VOLT", target_voltage)
    ELSE RampFrom(m, f, start_voltage, target_voltage - start_voltage,
                  (Abs(target_voltage - start_voltage) \div MaxVoltageStep) + 1, 1)

SetpointRead(q) == [m |-> q.m, val |-> IF q.st = "ok" THEN Some(q.val) ELSE None]

SetpointSelected(w, f) ==
    IF w.st # "ok" THEN [m |-> w.m, val |-> None] ELSE SetpointRead(Query(w.m, f, "VOLT?"))

\* Select, query the setpoint; every exception becomes None.
_get_channel_voltage_setpoint(m, f, channel) ==
    SetpointSelected(Write(m, f, "INST:SEL", channel), f)

\* except (VisaIOError, ValueError): return False; other exceptions propagate.
Except(st) == IF st = "visa" THEN "False" ELSE "Raised"

\* An enable that takes the output for on once the query has answered.
EnableTrusting(configs, q, channel) ==
    IF q.st # "ok" THEN [m |-> q.m, configs |-> configs, ret |-> Except(q.st)]
    ELSE [m |-> q.m, configs |-> SetEnabled(configs, channel, TRUE), ret |-> "True"]

\* The read-back of enable_channel_output.
EnableVerified(configs, q, channel) ==
    IF q.st # "ok" THEN [m |-> q.m, configs |-> configs, ret |-> Except(q.st)]
    ELSE IF q.val = 1
         THEN [m |-> q.m, configs |-> SetEnabled(configs, channel, TRUE), ret |-> "True"]
         ELSE [m |-> q.m, configs |-> configs, ret |-> "False"]

EnableWritten(configs, w, f, channel) ==
    IF w.st # "ok" THEN [m |-> w.m, configs |-> configs, ret |-> Except(w.st)]
    ELSE EnableVerified(configs, Query(w.m, f, "OUTP?"), channel)

\* The body of enable_channel_output after its checks: select, ON, read back.
EnableBody(configs, m, f, channel) ==
    EnableWritten(configs, Writes(m, f, << <<"INST:SEL", channel>>, <<"OUTP", 1>> >>),
                  f, channel)

\* A method that ends without touching the transport.
Refused(s, hw, ret) == Outcome(s, Machine(hw), ret, 0, 0, 0)

\* The end of a method of a connected session: no handle opened or closed.
Ended(s, m, ret) == Outcome(s, m, ret, 0, 0, 0)

\* The except clause of configure_channel.
Caught(s, m, st) == Ended(s, m, Except(st))

\* The over-voltage protection writes of configure_channel.
OvpWrites(m, f, voltage, ovp_level) ==
    IF ovp_level # None /\ Get(ovp_level) > voltage
    THEN Writes(m, f, << <<"OVP:LEV", Get(ovp_level)>>, <<"OVP:STAT", 1>> >>)
    ELSE [m |-> m, st |-> "ok"]

\* The level kept in the channel record.
StoredOvp(voltage, ovp_level) == ovp_level

\* configure_channel, the end: the enable step.
ConfigureEnabled(s, e) ==
    Ended([s EXCEPT !.configs = e.configs], e.m, IF e.ret = "Raised" THEN "Raised" ELSE "True")

\* configure_channel after the read-back: store the record, enable if asked.
ConfigureStore(s, f, a, actual_voltage, q) ==
    IF q.st # "ok" THEN Caught(s, q.m, q.st)
    ELSE IF ~a.enable_output
    THEN Ended([s EXCEPT !.configs[a.channel] =
                    Some([voltage       |-> actual_voltage,
                          current_limit |-> q.val,
                          ovp_level     |-> StoredOvp(a.voltage, a.ovp_level),
                          enabled       |-> FALSE])], q.m, "True")
    ELSE ConfigureEnabled(s,
            EnableBody([s.configs EXCEPT ![a.channel] =
                            Some([voltage       |-> actual_voltage,
                                  current_limit |-> q.val,
                                  ovp_level     |-> StoredOvp(a.voltage, a.ovp_level),
                                  enabled       |-> FALSE])],
                       q.m, f, a.channel))

ConfigureReadVoltage(s, f, a, q) ==
    IF q.st # "ok" THEN Caught(s, q.m, q.st)
    ELSE ConfigureStore(s, f, a, q.val, Query(q.m, f, "CURR?"))

ConfigureOvp(s, f, a, w) ==
    IF w.st # "ok" THEN Caught(s, w.m, w.st)
    ELSE ConfigureReadVoltage(s, f, a, Query(w.m, f, "VOLT?"))

ConfigureCurrent(s, f, a, w) ==
    IF w.st # "ok" THEN Caught(s, w.m, w.st)
    ELSE ConfigureOvp(s, f, a, OvpWrites(w.m, f, a.voltage, a.ovp_level))

ConfigureVoltage(s, f, a, w) ==
    IF w.st # "ok" THEN Caught(s, w.m, w.st)
    ELSE ConfigureCurrent(s, f, a, Write(w.m, f, "CURR", a.current_limit))

\* configure_channel: ramp from the setpoint read, or set the voltage directly.
ConfigureSetpoint(s, f, a, g) ==
    ConfigureVoltage(s, f, a,
        IF g.val # None THEN _ramp_voltage_safely(g.m, f, Get(g.val), a.voltage)
        ELSE Write(g.m, f, "VOLT", a.voltage))

ConfigureSelected(s, f, a, w) ==
    IF w.st # "ok" THEN Caught(s, w.m, w.st)
    ELSE ConfigureSetpoint(s, f, a, _get_channel_voltage_setpoint(w.m, f, a.channel))

\* configure_channel after the output was disabled (its result is not looked at).
ConfigureDisabled(s, f, a, d) ==
    ConfigureSelected([s EXCEPT !.configs = d.configs], f, a,
                      Write(d.m, f, "INST:SEL", a.channel))

\* A configure_channel that checks voltage and current only after it has
\* disabled the output.
PsuConfigureLateCheck(s, hw, f, a) ==
    IF ~s.connected THEN Refused(s, hw, "NotConnected")
    ELSE IF ~ChannelValid(s, a.channel) THEN Refused(s, hw, "ValueError")
    ELSE IF ~VoltageValid(s, a.voltage) \/ ~CurrentValid(s, a.current_limit)
    THEN Ended(s, _disable_channel_output_internal(s.configs, Machine(hw), f, a.channel).m,
               "ValueError")
    ELSE ConfigureDisabled(s, f, a,
            _disable_channel_output_internal(s.configs, Machine(hw), f, a.channel))

\* KeithleyPowerSupply.configure_channel
PsuConfigureOp(s, hw, f, a) ==
    IF ~s.connected THEN Refused(s, hw, "NotConnected")
    ELSE IF ~ChannelValid(s, a.channel) THEN Refused(s, hw, "ValueError")
    ELSE IF ~VoltageValid(s, a.voltage) THEN Refused(s, hw, "ValueError")
    ELSE IF ~CurrentValid(s, a.current_limit) THEN Refused(s, hw, "ValueError")
    ELSE ConfigureDisabled(s, f, a,
            _disable_channel_output_internal(s.configs, Machine(hw), f, a.channel))

EnableEnded(s, e) == Ended([s EXCEPT !.configs = e.configs], e.m, e.ret)

\* An enable_channel_output without the connection check.
PsuEnableUnchecked(s, hw, f, channel) ==
    IF ~ChannelValid(s, channel) THEN Refused(s, hw, "ValueError")
    ELSE EnableEnded(s, EnableBody(s.configs, Machine(hw), f, channel))

\* KeithleyPowerSupply.enable_channel_output
PsuEnableOp(s, hw, f, channel) ==
    IF ~s.connected THEN Refused(s, hw, "NotConnected")
    ELSE IF ~ChannelValid(s, channel) THEN Refused(s, hw, "ValueError")
    ELSE EnableEnded(s, EnableBody(s.configs, Machine(hw), f, channel))

DisableEnded(s, d) ==
    Ended([s EXCEPT !.configs = d.configs], d.m, IF d.ret THEN "True" ELSE "False")

\* KeithleyPowerSupply.disable_channel_output
PsuDisableOp(s, hw, f, channel) ==
    IF ~s.connected THEN Refused(s, hw, "NotConnected")
    ELSE IF ~ChannelValid(s, channel) THEN Refused(s, hw, "ValueError")
    ELSE DisableEnded(s, _disable_channel_output_internal(s.configs, Machine(hw), f, channel))

\* The current reading of measure_channel_output.
MeasureCurrent(s, voltage, q) ==
    IF q.st # "ok" THEN Ended(s, q.m, IF q.st = "visa" THEN "None" ELSE "Raised")
    ELSE IF ParseFloat(q.val) = None THEN Ended(s, q.m, "None")
    ELSE [Ended(s, q.m, "Tuple") EXCEPT !.val = Some(<<voltage, Get(ParseFloat(q.val))>>)]

\* The voltage reading of measure_channel_output.
MeasureVoltage(s, f, q) ==
    IF q.st # "ok" THEN Ended(s, q.m, IF q.st = "visa" THEN "None" ELSE "Raised")
    ELSE IF ParseFloat(q.val) = None THEN Ended(s, q.m, "None")
    ELSE MeasureCurrent(s, Get(ParseFloat(q.val)), Query(q.m, f, "MEAS:CURR?"))

MeasureSelected(s, f, w) ==
    IF w.st # "ok" THEN Ended(s, w.m, IF w.st = "visa" THEN "None" ELSE "Raised")
    ELSE MeasureVoltage(s, f, Query(w.m, f, "MEAS:VOLT?"))

\* KeithleyPowerSupply.measure_channel_output: the pair (voltage, current) as
\* read, None when not connected, for a channel out of range, and on a
\* VisaIOError or ValueError.
PsuMeasureOp(s, hw, f, channel) ==
    IF ~s.connected THEN Refused(s, hw, "None")
    ELSE IF ~ChannelValid(s, channel) THEN Refused(s, hw, "None")
    ELSE MeasureSelected(s, f, Write(Machine(hw), f, "INST:SEL", channel))

---------------------------------------------------------------------------
(* KeithleyDMM6500 *)

\* timeout_ms of __init__, in milliseconds.
DmmTimeoutMs == 30000

\* timeout: the timeout of the instrument handle the session references, None
\* while it references none.
DmmNew == [connected |-> FALSE, inst |-> "None", rm |-> "None", timeout |-> None]

\* KeithleyDMM6500._cleanup_connection
DmmCleanupConnection(s) ==
    [s EXCEPT !.connected = FALSE, !.inst = "None", !.rm = "None", !.timeout = None]

\* "self._instrument.timeout = self._timeout_ms" on the handle just opened.
DmmConfigured(x) == [x EXCEPT !.s.timeout = Some(DmmTimeoutMs)]

\* The except clauses of connect.
DmmConnectFailed(x, m, st) ==
    Outcome(DmmCleanupConnection(x.s), m, IF st = "visa" THEN "False" ELSE "Error",
            x.opened, 0, x.dropped + OpenRefs(x.s))

DmmConnectOpc(x, q) ==
    IF q.st # "ok" THEN DmmConnectFailed(x, q.m, q.st)
    ELSE Outcome([x.s EXCEPT !.connected = TRUE], q.m, "True", x.opened, 0, x.dropped)

DmmConnectPreset(x, f, w) ==
    IF w.st # "ok" THEN DmmConnectFailed(x, w.m, w.st)
    ELSE DmmConnectOpc(x, Query(w.m, f, "*OPC?"))

\* connect after the identification (a mismatch is only logged): clear,
\* preset, abort, clear.
DmmConnectIdn(x, f, q) ==
    IF q.st # "ok" THEN DmmConnectFailed(x, q.m, q.st)
    ELSE DmmConnectPreset(x, f, Writes(q.m, f, << <<"*CLS", 0>>, <<"SYST:PRES", 0>>,
                                                  <<"ABOR", 0>>, <<"*CLS", 0>> >>))

DmmConnectCls(x, f, w) ==
    IF w.st # "ok" THEN DmmConnectFailed(x, w.m, w.st)
    ELSE DmmConnectIdn(x, f, Query(w.m, f, "*IDN?"))

DmmConnectResource(x, f, c) ==
    IF c.st # "ok" THEN DmmConnectFailed(x, c.m, c.st)
    ELSE DmmConnectCls(DmmConfigured(Assigned(x, "inst")), f, Write(c.m, f, "*CLS", 0))

DmmConnectRm(x, f, c) ==
    IF c.st # "ok" THEN DmmConnectFailed(x, c.m, c.st)
    ELSE DmmConnectResource(Assigned(x, "rm"), f, Call(c.m, f, "open_resource"))

\* KeithleyDMM6500.connect
DmmConnectOp(s, hw, f) ==
    DmmConnectRm([s |-> s, opened |-> 0, dropped |-> 0], f, Call(Machine(hw), f, "rm.open"))

\* disconnect, the finally clause.
DmmDisconnectFinally(s, m, closed) ==
    Outcome(DmmCleanupConnection(s), m, "None", 0, closed, OpenRefs(s))

DmmDisconnectRmClosed(s, c, closed) ==
    IF c.st # "ok" THEN DmmDisconnectFinally(s, c.m, closed)
    ELSE DmmDisconnectFinally([s EXCEPT !.rm = "closed"], c.m, closed + 1)

DmmDisconnectRm(s, f, m, closed) ==
    IF s.rm = "None" THEN DmmDisconnectFinally(s, m, closed)
    ELSE DmmDisconnectRmClosed(s, Call(m, f, "rm.close"), closed)

DmmDisconnectInstClosed(s, f, c) ==
    IF c.st # "ok" THEN DmmDisconnectFinally(s, c.m, 0)
    ELSE DmmDisconnectRm([s EXCEPT !.inst = "closed"], f, c.m, 1)

\* disconnect after the abort and clear-status writes.
DmmDisconnectSafe(s, f, w) ==
    IF w.st # "ok" THEN DmmDisconnectFinally(s, w.m, 0)
    ELSE DmmDisconnectInstClosed(s, f, Call(w.m, f, "inst.close"))

\* KeithleyDMM6500.disconnect
DmmDisconnectOp(s, hw, f) ==
    IF s.inst = "None" THEN DmmDisconnectRm(s, f, Machine(hw), 0)
    ELSE DmmDisconnectSafe(s, f, Writes(Machine(hw), f, << <<"ABOR", 0>>, <<"*CLS", 0>> >>))

FastRead(q) == [m |-> q.m, val |-> IF q.st = "ok" THEN ParseFloat(q.val) ELSE None]

FastSelected(f, w) ==
    IF w.st # "ok" THEN [m |-> w.m, val |-> None] ELSE FastRead(Query(w.m, f, "READ?"))

\* The abort is tried and its exception passed over; then the function select.
FastCleared(f, w) ==
    IF w.st # "ok" THEN [m |-> w.m, val |-> None]
    ELSE FastSelected(f, Write(Write(w.m, f, "ABOR", 0).m, f, "SENS:FUNC", "VOLT:DC"))

\* KeithleyDMM6500.measure_dc_voltage_fast: the value read, None on any failure.
measure_dc_voltage_fast(s, m, f) ==
    IF ~s.connected THEN [m |-> m, val |-> None]
    ELSE FastCleared(f, Write(m, f, "*CLS", 0))

RECURSIVE SumSeq(_)
SumSeq(xs) == IF xs = <<>> THEN 0 ELSE Head(xs) + SumSeq(Tail(xs))
MinSeq(xs) == CHOOSE x \in {xs[i] : i \in 1..Len(xs)} : \A i \in 1..Len(xs) : x <= xs[i]
MaxSeq(xs) == CHOOSE x \in {xs[i] : i \in 1..Len(xs)} : \A i \in 1..Len(xs) : x >= xs[i]

\* The result dictionary; the mean is sum / count.
Statistics(measurements) ==
    [count   |-> Len(measurements),
     sum     |-> SumSeq(measurements),
     minimum |-> MinSeq(measurements),
     maximum |-> MaxSeq(measurements),
     range   |-> MaxSeq(measurements) - MinSeq(measurements)]

\* The sampling loop: i samples taken so far.  time.sleep raises ValueError on
\* a negative interval, which ends the loop in the except clause.
RECURSIVE Collect(_, _, _, _, _, _)
\* A loop that puts 0 in the place of a sample that failed.
CollectWithPlaceholder(s, f, a, i, measurements, r) ==
    Collect(s, r.m, f, a, i + 1, Append(measurements, IF r.val = None THEN 0 ELSE Get(r.val)))

CollectNext(s, f, a, i, measurements, r) ==
    IF r.val = None THEN Collect(s, r.m, f, a, i + 1, measurements)
    ELSE IF i >= a.measurement_count - 1
    THEN Collect(s, r.m, f, a, i + 1, Append(measurements, Get(r.val)))
    ELSE IF a.measurement_interval < 0
    THEN [m |-> r.m, measurements |-> Append(measurements, Get(r.val)), raised |-> TRUE]
    ELSE Collect(s, Sleep(r.m, a.measurement_interval), f, a, i + 1,
                 Append(measurements, Get(r.val)))
Collect(s, m, f, a, i, measurements) ==
    IF i >= a.measurement_count
    THEN [m |-> m, measurements |-> measurements, raised |-> FALSE]
    ELSE CollectNext(s, f, a, i, measurements, measure_dc_voltage_fast(s, m, f))

\* A method that ends with a value.
EndedWith(s, m, ret, val) == [Ended(s, m, ret) EXCEPT !.val = val]

\* A statistics run that extends the timeout and puts it back only when it
\* has a result.
StatisticsExtended(s, c) ==
    IF c.raised \/ Len(c.measurements) < 2
    THEN Ended([s EXCEPT !.timeout = Some(2 * DmmTimeoutMs)], c.m, "None")
    ELSE EndedWith(s, c.m, "Dict", Some(Statistics(c.measurements)))

StatisticsResult(s, c) ==
    IF c.raised \/ Len(c.measurements) < 2 THEN Ended(s, c.m, "None")
    ELSE EndedWith(s, c.m, "Dict", Some(Statistics(c.measurements)))

\* A perform_measurement_statistics that accepts a single sample.
DmmStatisticsFromOne(s, hw, f, a) ==
    IF ~s.connected THEN Refused(s, hw, "None")
    ELSE IF a.measurement_count < 1 THEN Refused(s, hw, "ValueError")
    ELSE StatisticsResult(s, Collect(s, Machine(hw), f, a, 0, <<>>))

\* KeithleyDMM6500.perform_measurement_statistics
DmmStatisticsOp(s, hw, f, a) ==
    IF ~s.connected THEN Refused(s, hw, "None")
    ELSE IF a.measurement_count < 2 THEN Refused(s, hw, "ValueError")
    ELSE StatisticsResult(s, Collect(s, Machine(hw), f, a, 0, <<>>))

\* The valid ranges: volts and amperes in units of 1e-6, ohms in ohms.  The
\* measurement functions (MeasurementFunction) go by their short forms:
\* "VOLT:DC", "VOLT:AC", "CURR:DC", "CURR:AC", "RES", "FRES", "CAP", "FREQ".
VoltageRanges == {UV \div 10, 1 * UV, 10 * UV, 100 * UV, 1000 * UV}
CurrentRanges == {1, 10, 100, 1000, 10000, 100000, 1 * UV, 3 * UV, 10 * UV}
ResistanceRanges == {100, 1000, 10000, 100000, 1000000, 10000000, 100000000}

\* The valid integration times, in units of 0.01 power line cycles.
ValidNplcValues == {1, 2, 6, 20, 100, 200, 1000}

\* min_resolution, in units of 1e-9.
MinResolution == 1

Largest(S) == CHOOSE x \in S : \A y \in S : y <= x
Smallest(S) == CHOOSE x \in S : \A y \in S : x <= y

\* The largest valid range the one asked for holds, the smallest range when
\* there is none.
SnapDown(valid_ranges, measurement_range) ==
    IF measurement_range \in valid_ranges THEN measurement_range
    ELSE IF {r \in valid_ranges : r <= measurement_range} = {} THEN Smallest(valid_ranges)
    ELSE Largest({r \in valid_ranges : r <= measurement_range})

\* The smallest valid range that holds the one asked for, the largest range
\* when none does.
SnapTo(valid_ranges, measurement_range) ==
    IF measurement_range \in valid_ranges THEN measurement_range
    ELSE IF {r \in valid_ranges : r >= measurement_range} = {} THEN Largest(valid_ranges)
    ELSE Smallest({r \in valid_ranges : r >= measurement_range})

\* The range written by measure(): snapped for the functions with a range table.
MeasureRange(function, measurement_range) ==
    IF function \in {"VOLT:DC", "VOLT:AC"} THEN SnapTo(VoltageRanges, measurement_range)
    ELSE IF function \in {"CURR:DC", "CURR:AC"} THEN SnapTo(CurrentRanges, measurement_range)
    ELSE IF function \in {"RES", "FRES"} THEN SnapTo(ResistanceRanges, measurement_range)
    ELSE measurement_range

\* The valid value nearest to nplc, the smaller one of two equally near.
MeasureNplc(nplc) ==
    IF nplc \in ValidNplcValues THEN nplc
    ELSE Smallest({x \in ValidNplcValues :
                     \A y \in ValidNplcValues : Abs(x - nplc) <= Abs(y - nplc)})

\* Failure handling that leaves the instrument alone after a VisaIOError.
MeasureFailedQuiet(s, e, m, st) ==
    IF st = "visa" THEN Ended(s, m, "None")
    ELSE Ended(s, Write(m, e.f, "ABOR", 0).m, "None")

\* The except clauses of measure(): the abort is tried after a VisaIOError
\* whose text says "timeout" and after any other exception; then None.
MeasureFailed(s, e, m, st) ==
    IF st = "visa" /\ ~e.timed_out THEN Ended(s, m, "None")
    ELSE Ended(s, Write(m, e.f, "ABOR", 0).m, "None")

\* The longest prefix of text made of the characters of a number.
RECURSIVE LeadingNumber(_)
LeadingNumber(text) ==
    IF text = <<>> \/ Head(text) \notin (Digits \cup {"+", "-", ".", "e", "E"}) THEN <<>>
    ELSE <<Head(text)>> \o LeadingNumber(Tail(text))

\* A reading taken from the number the answer starts with.
MeasureReadLeading(s, e, q) ==
    IF q.st # "ok" THEN MeasureFailed(s, e, q.m, q.st)
    ELSE IF ParseFloat(LeadingNumber(Strip(q.val))) = None
    THEN MeasureFailed(s, e, q.m, "other")
    ELSE EndedWith(s, q.m, "Float", ParseFloat(LeadingNumber(Strip(q.val))))

\* float(value_str.strip()) of the reading.
MeasureRead(s, e, q) ==
    IF q.st # "ok" THEN MeasureFailed(s, e, q.m, q.st)
    ELSE IF ParseFloat(q.val) = None THEN MeasureFailed(s, e, q.m, "other")
    ELSE EndedWith(s, q.m, "Float", ParseFloat(q.val))

\* A reading taken without the integration time being written.
MeasureNplcSkipped(s, e, a, m) == MeasureRead(s, e, Query(m, e.f, "READ?"))

\* The integration time, when one is given; an exception is passed over.
MeasureNplcSet(s, e, a, m) ==
    MeasureRead(s, e,
        Query(IF a.nplc = None THEN m
              ELSE Write(m, e.f, "SENS:NPLC", MeasureNplc(Get(a.nplc))).m, e.f, "READ?"))

\* The resolution, when one is given; an exception is passed over.
MeasureResolutionSet(s, e, a, m) ==
    MeasureNplcSet(s, e, a,
        IF a.resolution = None THEN m
        ELSE Write(m, e.f, "SENS:RES",
                   IF Get(a.resolution) < MinResolution THEN MinResolution
                   ELSE Get(a.resolution)).m)

\* The range, or auto-range when none is given; an exception is passed over.
MeasureFunctionSet(s, e, a, w) ==
    IF w.st # "ok" THEN MeasureFailed(s, e, w.m, w.st)
    ELSE MeasureResolutionSet(s, e, a,
            IF a.measurement_range = None THEN Write(w.m, e.f, "SENS:RANG:AUTO", 1).m
            ELSE Write(w.m, e.f, "SENS:RANG",
                       MeasureRange(a.function, Get(a.measurement_range))).m)

\* The abort is tried and its exception passed over; then the function select.
MeasureCleared(s, e, a, w) ==
    IF w.st # "ok" THEN MeasureFailed(s, e, w.m, w.st)
    ELSE MeasureFunctionSet(s, e, a,
            Write(Write(w.m, e.f, "ABOR", 0).m, e.f, "SENS:FUNC", a.function))

\* KeithleyDMM6500.measure.  e: the fault pattern of the transport, and
\* whether the text of its VisaIOError says "timeout".
DmmMeasureOp(s, hw, e, a) ==
    IF ~s.connected THEN Refused(s, hw, "None")
    ELSE MeasureCleared(s, e, a, Write(Machine(hw), e.f, "*CLS", 0))

\* The writes of measure_dc_voltage ahead of the reading: clear, abort,
\* function, range or auto-range, resolution when one is given, and the
\* integration time (1 when none is given).  None of them has a try of its own.
DcVoltageWrites(a) ==
    << <<"*CLS", 0>>, <<"ABOR", 0>>, <<"SENS:FUNC", "VOLT:DC">>,
       IF a.measurement_range = None THEN <<"SENS:RANG:AUTO", 1>>
       ELSE <<"SENS:RANG", SnapTo(VoltageRanges, Get(a.measurement_range))>> >>
    \o (IF a.resolution = None THEN <<>>
        ELSE << <<"SENS:RES", IF Get(a.resolution) < MinResolution THEN MinResolution
                              ELSE Get(a.resolution)>> >>)
    \o << <<"SENS:NPLC", IF a.nplc = None THEN 100 ELSE MeasureNplc(Get(a.nplc))>> >>

\* float(measurement_str.strip()); a ValueError returns None with no abort.
DcVoltageRead(s, e, q) ==
    IF q.st # "ok" THEN MeasureFailed(s, e, q.m, q.st)
    ELSE IF ParseFloat(q.val) = None THEN Ended(s, q.m, "None")
    ELSE EndedWith(s, q.m, "Float", ParseFloat(q.val))

DcVoltageConfigured(s, e, w) ==
    IF w.st # "ok" THEN MeasureFailed(s, e, w.m, w.st)
    ELSE DcVoltageRead(s, e, Query(w.m, e.f, "READ?"))

\* KeithleyDMM6500.measure_dc_voltage; its except clauses for VisaIOError and
\* for other exceptions are those of measure().
DmmMeasureDcOp(s, hw, e, a) ==
    IF ~s.connected THEN Refused(s, hw, "NotConnected")
    ELSE DcVoltageConfigured(s, e, Writes(Machine(hw), e.f, DcVoltageWrites(a)))

---------------------------------------------------------------------------
(* SCPIWrapper and KeysightDSOX6004A *)

ScopeNew == [connected |-> FALSE, inst |-> "None", rm |-> "None"]

\* SCPIWrapper._cleanup_connection
WrapperCleanupConnection(s) ==
    [s EXCEPT !.connected = FALSE, !.inst = "None", !.rm = "None"]

\* SCPIWrapper.connect catches VisaIOError only: clean up and return False;
\* any other exception leaves the attributes as they are.
WrapperConnectFailed(x, m, st) ==
    IF st = "visa"
    THEN [x |-> [x EXCEPT !.s = WrapperCleanupConnection(x.s),
                          !.dropped = x.dropped + OpenRefs(x.s)],
          m |-> m, ret |-> "False"]
    ELSE [x |-> x, m |-> m, ret |-> "Raised"]

WrapperConnectResource(x, c) ==
    IF c.st # "ok" THEN WrapperConnectFailed(x, c.m, c.st)
    ELSE [x |-> [Assigned(x, "inst") EXCEPT !.s.connected = TRUE], m |-> c.m, ret |-> "True"]

WrapperConnectRm(x, f, c) ==
    IF c.st # "ok" THEN WrapperConnectFailed(x, c.m, c.st)
    ELSE WrapperConnectResource(Assigned(x, "rm"), Call(c.m, f, "open_resource"))

\* SCPIWrapper.connect
WrapperConnect(s, m, f) ==
    WrapperConnectRm([s |-> s, opened |-> 0, dropped |-> 0], f, Call(m, f, "rm.open"))

\* The end of disconnect: _cleanup_connection.
WrapperCleanedUp(s, m, closed) ==
    [s |-> WrapperCleanupConnection(s), m |-> m, ret |-> "None",
     closed |-> closed, dropped |-> OpenRefs(s)]

\* An exception in disconnect goes to the caller from where it was raised.
WrapperRaised(s, m, closed) ==
    [s |-> s, m |-> m, ret |-> "Raised", closed |-> closed, dropped |-> 0]

WrapperRmClosed(s, c, closed) ==
    IF c.st # "ok" THEN WrapperRaised(s, c.m, closed)
    ELSE WrapperCleanedUp([s EXCEPT !.rm = "closed"], c.m, closed + 1)

\* if self._resource_manager: close it.
WrapperDisconnectRm(s, m, f, closed) ==
    IF s.rm = "open" THEN WrapperRmClosed(s, Call(m, f, "rm.close"), closed)
    ELSE WrapperCleanedUp(s, m, closed)

WrapperInstClosed(s, f, c) ==
    IF c.st # "ok" THEN WrapperRaised(s, c.m, 0)
    ELSE WrapperDisconnectRm([s EXCEPT !.inst = "closed"], c.m, f, 1)

\* SCPIWrapper.disconnect; closing a handle that is closed already does nothing.
WrapperDisconnect(s, m, f) ==
    IF s.inst = "open" THEN WrapperInstClosed(s, f, Call(m, f, "inst.close"))
    ELSE WrapperDisconnectRm(s, m, f, 0)

\* SCPIWrapper.write: ConnectionError without a session, the library's
\* InvalidSession on a closed handle, else the transport call.
WrapperWrite(s, m, f, cmd, arg) ==
    IF ~s.connected \/ s.inst # "open" THEN [m |-> m, st |-> "other"]
    ELSE Write(m, f, cmd, arg)

\* SCPIWrapper.query
WrapperQuery(s, m, f, cmd) ==
    IF ~s.connected \/ s.inst # "open" THEN [m |-> m, st |-> "other", val |-> None]
    ELSE Query(m, f, cmd)

RECURSIVE WrapperWrites(_, _, _, _)
WrapperWritesNext(s, r, f, rest) ==
    IF r.st # "ok" THEN r ELSE WrapperWrites(s, r.m, f, rest)
WrapperWrites(s, m, f, cmds) ==
    IF cmds = <<>> THEN [m |-> m, st |-> "ok"]
    ELSE WrapperWritesNext(s, WrapperWrite(s, m, f, cmds[1][1], cmds[1][2]), f, Tail(cmds))

\* connect, the except clause: disconnect the wrapper, return False.
ScopeAborted(x, d) ==
    Outcome(d.s, d.m, IF d.ret = "Raised" THEN "Raised" ELSE "False",
            x.opened, d.closed, x.dropped + d.dropped)

ScopeConnectOpc(x, f, q) ==
    IF q.st # "ok" THEN ScopeAborted(x, WrapperDisconnect(x.s, q.m, f))
    ELSE Outcome(x.s, q.m, "True", x.opened, 0, x.dropped)

ScopeConnectCls(x, f, w) ==
    IF w.st # "ok" THEN ScopeAborted(x, WrapperDisconnect(x.s, w.m, f))
    ELSE ScopeConnectOpc(x, f, WrapperQuery(x.s, w.m, f, "*OPC?"))

\* connect after the identification query (a mismatch is only logged).
ScopeConnectIdn(x, f, q) ==
    IF q.st # "ok" THEN ScopeAborted(x, WrapperDisconnect(x.s, q.m, f))
    ELSE ScopeConnectCls(x, f, WrapperWrite(x.s, q.m, f, "*CLS", 0))

ScopeWrapperConnected(f, r) ==
    IF r.ret # "True" THEN Outcome(r.x.s, r.m, r.ret, r.x.opened, 0, r.x.dropped)
    ELSE ScopeConnectIdn(r.x, f, WrapperQuery(r.x.s, r.m, f, "*IDN?"))

\* KeysightDSOX6004A.connect
ScopeConnectOp(s, hw, f) == ScopeWrapperConnected(f, WrapperConnect(s, Machine(hw), f))

ScopeDisconnected(d) == Outcome(d.s, d.m, d.ret, 0, d.closed, d.dropped)

\* KeysightDSOX6004A.disconnect
ScopeDisconnectOp(s, hw, f) == ScopeDisconnected(WrapperDisconnect(s, Machine(hw), f))

\* _valid_vertical_scales, in millivolts per division.
ValidVerticalScales == <<1, 2, 5, 10, 20, 50, 100, 200, 500, 1000, 2000, 5000, 10000>>

\* min(scales, key=lambda x: abs(x - vertical_scale)): the first of the nearest.
ClosestScale(vertical_scale) ==
    ValidVerticalScales[
        CHOOSE i \in 1..Len(ValidVerticalScales) :
            /\ \A j \in 1..Len(ValidVerticalScales) :
                  Abs(ValidVerticalScales[i] - vertical_scale)
                      <= Abs(ValidVerticalScales[j] - vertical_scale)
            /\ \A j \in 1..(i - 1) :
                  Abs(ValidVerticalScales[j] - vertical_scale)
                      > Abs(ValidVerticalScales[i] - vertical_scale)]

SnappedScale(vertical_scale) ==
    IF \E i \in 1..Len(ValidVerticalScales) : ValidVerticalScales[i] = vertical_scale
    THEN vertical_scale ELSE ClosestScale(vertical_scale)

AC == <<"A", "C">>
DC == <<"D", "C">>
GND == <<"G", "N", "D">>

\* A coupling check that lets every text through.
CouplingAny(coupling) == TRUE

CouplingValid(coupling) == Upper(coupling) \in {AC, DC, GND}

ScopeChannelValid(channel) == 1 <= channel /\ channel <= 4

ScopeArg(channel, value) == [channel |-> channel, value |-> value]

ScopeReadOffset(s, q) == Ended(s, q.m, IF q.st = "ok" THEN "True" ELSE "False")

ScopeReadScale(s, f, q) ==
    IF q.st # "ok" THEN Ended(s, q.m, "False")
    ELSE ScopeReadOffset(s, WrapperQuery(s, q.m, f, "CHAN:OFFS?"))

ScopeWritten(s, f, w) ==
    IF w.st # "ok" THEN Ended(s, w.m, "False")
    ELSE ScopeReadScale(s, f, WrapperQuery(s, w.m, f, "CHAN:SCAL?"))

\* KeysightDSOX6004A.configure_channel
ScopeConfigureOp(s, hw, f, a) ==
    IF ~s.connected THEN Refused(s, hw, "NotConnected")
    ELSE IF ~ScopeChannelValid(a.channel) THEN Refused(s, hw, "ValueError")
    ELSE IF ~CouplingValid(a.coupling) THEN Refused(s, hw, "ValueError")
    ELSE ScopeWritten(s, f,
            WrapperWrites(s, Machine(hw), f,
                << <<"CHAN:DISP", ScopeArg(a.channel, TRUE)>>,
                   <<"CHAN:SCAL", ScopeArg(a.channel, SnappedScale(a.vertical_scale))>>,
                   <<"CHAN:OFFS", ScopeArg(a.channel, a.vertical_offset)>>,
                   <<"CHAN:COUP", ScopeArg(a.channel, a.coupling)>>,
                   <<"CHAN:PROB", ScopeArg(a.channel, a.probe_attenuation)>> >>))

---------------------------------------------------------------------------
(* TrulyResponsiveAutomationGUI (oscilloscope_automation_main.py) *)

\* The callbacks of the GUI run one at a time on the Tk thread; each worker
\* thread runs beside them, one statement that touches the shared attributes
\* at a time.  A call of a driver method on a connected session is a command
\* exchange: it begins in one step and ends in a later one.  Sessions are
\* numbered in the order they are created; 0 stands for None.

\* KeysightDSOX6004A objects created in one run, worker threads alive at a
\* time, and status messages waiting or still to be put.
MaxSessions == 2
MaxWorkers == 2
MaxPending == 3

Idle == [kind |-> "idle", pc |-> "none", target |-> 0]
NewSession == [connected |-> FALSE, disconnected |-> FALSE, busy |-> 0]

\* Attributes set by __init__; the operation buttons start disabled.
GuiNew ==
    [oscilloscope     |-> 0,
     data_acquisition |-> None,       \* None, or Some(the session it was made for)
     connect_btn      |-> TRUE,
     disconnect_btn   |-> FALSE,
     operation_btns   |-> FALSE,
     status_queue     |-> <<>>,
     sessions         |-> <<>>,
     workers          |-> [w \in 1..MaxWorkers |-> Idle],
     toggling         |-> 0,          \* the session toggle_channel_display writes to
     running          |-> TRUE]       \* mainloop has not returned

Alive(g) == {w \in 1..MaxWorkers : g.workers[w].kind # "idle"}
IsConnected(g, s) == s # 0 /\ g.sessions[s].connected

\* A command exchange on session s begins and ends.
Begin(g, s) == [g EXCEPT !.sessions[s].busy = @ + 1]
Finish(g, s) == [g EXCEPT !.sessions[s].busy = @ - 1]

\* status_queue.put, and the end of a worker thread after its last put.
Put(g, status) == [g EXCEPT !.status_queue = Append(@, status)]
Exits(g, w, status) == [Put(g, status) EXCEPT !.workers[w] = Idle]
At(g, w, pc, target) == [g EXCEPT !.workers[w].pc = pc, !.workers[w].target = target]

\* threading.Thread(target=..., daemon=True).start()
Started(g, w, kind) == [g EXCEPT !.workers[w] = [kind |-> kind, pc |-> "start", target |-> 0]]

\* self.oscilloscope.disconnect() on the session the attribute names.
SessionDisconnected(g) ==
    IF g.oscilloscope = 0 THEN g
    ELSE [g EXCEPT !.sessions[g.oscilloscope].connected = FALSE,
                   !.sessions[g.oscilloscope].disconnected = TRUE]

\* connect_thread: create the session and store it; call connect() on what
\* the attribute names then; make the data acquisition handler for what it
\* names after that and ask it for the instrument information; put the status.
connect_thread(g, w, empty, ok) ==
    LET t == g.workers[w]
    IN  CASE t.pc = "start" ->
               IF empty THEN Exits(g, w, "error")
               ELSE At([g EXCEPT !.sessions = Append(@, NewSession),
                                 !.oscilloscope = Len(g.sessions) + 1], w, "created", 0)
          [] t.pc = "created" ->
               IF g.oscilloscope = 0 THEN Exits(g, w, "error")
               ELSE At(Begin(g, g.oscilloscope), w, "connecting", g.oscilloscope)
          [] t.pc = "connecting" ->
               IF ok THEN At(Finish([g EXCEPT !.sessions[t.target].connected = TRUE], t.target),
                             w, "connected", 0)
               ELSE Exits(Finish(g, t.target), w, "error")
          [] t.pc = "connected" ->
               IF g.oscilloscope = 0
               THEN Exits([g EXCEPT !.data_acquisition = Some(0)], w, "error")
               ELSE IF ~IsConnected(g, g.oscilloscope)
               THEN Exits([g EXCEPT !.data_acquisition = Some(g.oscilloscope)], w, "connected")
               ELSE At(Begin([g EXCEPT !.data_acquisition = Some(g.oscilloscope)],
                             g.oscilloscope), w, "info", g.oscilloscope)
          [] OTHER -> Exits(Finish(g, t.target), w, "connected")

\* connect_oscilloscope: the button stays enabled while the thread runs.
connect_oscilloscope(g, w) == Started(g, w, "connect")

\* disconnect_oscilloscope
disconnect_oscilloscope(g) ==
    IF g.oscilloscope = 0 THEN g
    ELSE [SessionDisconnected(g) EXCEPT !.oscilloscope = 0, !.data_acquisition = None,
                                        !.connect_btn = TRUE, !.disconnect_btn = FALSE,
                                        !.operation_btns = FALSE]

\* The test at the end of configure_channel, capture_screenshot, acquire_data
\* and run_full_automation that starts the worker thread.
OperationStarts(g, kind) ==
    IF kind \in {"configure", "screenshot"} THEN IsConnected(g, g.oscilloscope)
    ELSE g.data_acquisition # None

\* The session a worker's driver call goes to: self.oscilloscope, or the one
\* self.data_acquisition was made for; 0 when the attribute is None by then.
CallTarget(g, acquiring) ==
    IF ~acquiring THEN g.oscilloscope
    ELSE IF g.data_acquisition = None THEN 0 ELSE Get(g.data_acquisition)

\* The status a worker puts after its last exchange.
Completed(kind) ==
    CASE kind = "configure"  -> "channel_configured"
      [] kind = "screenshot" -> "screenshot_success"
      [] kind = "acquire"    -> "data_acquired"
      [] OTHER               -> "full_automation_complete"

\* A driver call of a worker: no exchange on a session that is not connected.
OperationCall(g, w, acquiring, pc) ==
    IF ~IsConnected(g, CallTarget(g, acquiring))
    THEN (IF g.workers[w].kind = "automation" /\ ~acquiring /\ g.oscilloscope # 0
          THEN At(g, w, "acquire", 0)
          ELSE Exits(g, w, "error"))
    ELSE At(Begin(g, CallTarget(g, acquiring)), w, pc, CallTarget(g, acquiring))

\* config_thread, screenshot_thread, acquire_thread and full_automation_thread:
\* the automation takes the screenshot, then acquires.
operation_thread(g, w, selected, ok) ==
    LET t == g.workers[w]
    IN  CASE t.pc = "start" ->
               IF t.kind # "screenshot" /\ ~selected THEN Exits(g, w, "error")
               ELSE OperationCall(g, w, t.kind = "acquire",
                                  IF t.kind = "automation" THEN "screenshot" ELSE "exchange")
          [] t.pc = "screenshot" -> At(Finish(g, t.target), w, "acquire", 0)
          [] t.pc = "acquire" -> OperationCall(g, w, TRUE, "exchange")
          [] OTHER ->
               Exits(Finish(g, t.target), w, IF ok THEN Completed(t.kind) ELSE "error")

\* check_status_updates: every message waiting is handled; "connected"
\* disables Connect and enables Disconnect and the operation buttons.
check_status_updates(g) ==
    IF \E i \in DOMAIN g.status_queue : g.status_queue[i] = "connected"
    THEN [g EXCEPT !.status_queue = <<>>, !.connect_btn = FALSE, !.disconnect_btn = TRUE,
                   !.operation_btns = TRUE]
    ELSE [g EXCEPT !.status_queue = <<>>]

\* run: mainloop returns, the session the attribute names is disconnected and
\* the daemon threads end with the process.
run(g) ==
    [SessionDisconnected(g) EXCEPT
        !.running = FALSE,
        !.workers = [w \in 1..MaxWorkers |-> Idle],
        !.sessions = [s \in DOMAIN g.sessions |->
                        [SessionDisconnected(g).sessions[s] EXCEPT !.busy = 0]]]

---------------------------------------------------------------------------
(* Inputs *)

\* Identification responses: the supported models, an unknown one, a short one.
Idn2230 ==
    <<"K","E","I","T","H","L","E","Y",",","2","2","3","0","-","3","0","-","3",",","S","N",",","1",".","0","\n">>
Idn2231 ==
    <<"K","e","i","t","h","l","e","y",",","2","2","3","1","A","-","3","0","-","3",",","S","N",",","1",".","0","\n">>
Idn2280 ==
    <<"K","E","I","T","H","L","E","Y",","," ","2","2","8","0","S","-","3","2","-","6",",","S","N",",","1",".","0","\n">>
Idn2260 ==
    <<"K","E","I","T","H","L","E","Y",",","2","2","6","0","B","-","8","0","-","2","7",",","S","N",",","1",".","0","\n">>
Idn2268 ==
    <<"K","E","I","T","H","L","E","Y",",","2","2","6","8","-","1","5","0","-","5",",","S","N",",","1",".","0","\n">>
IdnOther ==
    <<"K","E","I","T","H","L","E","Y",",","9","9","9","9",",","S","N",",","1",".","0","\n">>
IdnShort ==
    <<"K","E","I","T","H","L","E","Y","\n">>

SupportedIdns == {Idn2230, Idn2231, Idn2280, Idn2260, Idn2268}
AllIdns == SupportedIdns \cup {IdnOther, IdnShort}

\* Answers to the measurement queries of the power supply: none ready, 0 A,
\* a residual 1.2 mA, and an empty line.
NoMeas == [voltage |-> <<>>, current |-> <<>>]
Meas0 == <<"0", ".", "0", "0", "0", "0", "\n">>
MeasStale == <<"0", ".", "0", "0", "1", "2", "\n">>
MeasEmpty == <<"\n">>
MeasTexts ==
    [voltage : {Meas0, <<"2", "5", ".", "0", "1", "\n">>},
     current : {Meas0, MeasStale, MeasEmpty}]

\* Setpoints a reset may leave on every channel.
RstVolts == {0, 1 * UV}

\* The bench before the first connect: outputs on or off, at 0 V or 12 V.
PsuBenches ==
    {[sel |-> 1,
      out |-> [c \in ChannelIds |-> o],
      volt |-> [c \in ChannelIds |-> v],
      curr |-> [c \in ChannelIds |-> 1 * UV],
      ovp |-> [c \in ChannelIds |-> 0],
      ovpOn |-> [c \in ChannelIds |-> FALSE],
      rstVolt |-> rv,
      meas |-> NoMeas,
      stuck |-> {},
      idn |-> Idn2230] : o \in BOOLEAN, v \in {0, 12 * UV}, rv \in RstVolts}

\* A bench that was left switched off.
PsuBenchOff ==
    {b \in PsuBenches : b.volt[1] = 0 /\ ~b.out[1] /\ b.rstVolt = 0}

Args(channel, voltage, current_limit, ovp_level, enable_output) ==
    [channel |-> channel, voltage |-> voltage, current_limit |-> current_limit,
     ovp_level |-> ovp_level, enable_output |-> enable_output]

\* Voltages and currents just outside the range of each model, and a value
\* inside all of them.
VoltProbes == {0 - 1, 25 * UV, 30 * UV + 1, 72 * UV + 1, 600 * UV + 1}
CurrProbes == {MinCurrent - 1, 1 * UV, 3 * UV + 1, 6 * UV + 1, 10 * UV + 1}
ChannelProbes == {0, 1, 2, 4}
OvpProbes == {None, Some(20 * UV), Some(25 * UV), Some(26 * UV)}

\* A bench on which the output of channel 2 follows no command: it stays as
\* it was left, on or off.
PsuBenchStuck ==
    {[b EXCEPT !.stuck = {2}] : b \in {b \in PsuBenches : b.volt[1] = 0 /\ b.rstVolt = 0}}

\* A bench that was left with its outputs on at 12 V.
PsuBenchLive ==
    {b \in PsuBenches : b.volt[1] # 0 /\ b.out[1]}

\* configure_channel arguments: each argument varied from a valid call.
ConfigureProbes ==
    {Args(c, 25 * UV, 1 * UV, None, FALSE) : c \in ChannelProbes}
    \cup {Args(1, v, 1 * UV, None, FALSE) : v \in VoltProbes}
    \cup {Args(1, 25 * UV, i, None, FALSE) : i \in CurrProbes}
    \cup {Args(0, 0 - 1, MinCurrent - 1, None, FALSE)}

\* configure_channel arguments with a protection level below, at and above
\* the voltage, and two calls that fail validation.
OvpArgs ==
    {Args(1, v, 1 * UV, o, e) : v \in {20 * UV, 25 * UV}, o \in OvpProbes, e \in BOOLEAN}
    \cup {Args(1, 50 * UV, 1 * UV, None, FALSE), Args(4, 25 * UV, 1 * UV, None, FALSE)}

\* Most samples one statistics call is asked for.
MaxStatCount == 3

\* Answers of the multimeter to :READ?: two readings and an error text.
Read15 == <<"+", "1", ".", "5", "0", "0", "0", "0", "0", "E", "+", "0", "0", "\n">>
Read25 == <<"2", ".", "5", "\n">>
ReadErr == <<"-", "1", "1", "3", ",", "\"", "e", "r", "r", "\"", "\n">>
ReadTexts == {Read15, Read25, ReadErr}

\* The answers the multimeter has ready for a call that takes n samples.
ReadSeqs(texts, n) == [1..(IF n < 0 THEN 0 ELSE n) -> texts]

StatArgs ==
    [measurement_count : 0..MaxStatCount, measurement_interval : {0 - 1, 0, 100}]

\* Answers with blanks around the number, with a unit after it, with text
\* before it, and with no number.
ReadPadded == <<" ", "2", ".", "5", " ", "\n">>
ReadUnit == <<"2", ".", "5", "V", "\n">>
ReadPrefixed == <<"V", " ", "2", ".", "5", "\n">>
ReadText == <<"e", "r", "r", "\n">>
MeasureTexts == {Read15, Read25, ReadErr, ReadPadded, ReadUnit, ReadPrefixed, ReadText}

MeasureAll ==
    [function |-> "VOLT:DC", measurement_range |-> Some(5 * UV), resolution |-> Some(0),
     nplc |-> Some(4)]
MeasureArgs ==
    {[function |-> "VOLT:DC", measurement_range |-> None, resolution |-> None, nplc |-> None],
     MeasureAll,
     [function |-> "FRES", measurement_range |-> Some(2000000000), resolution |-> None,
      nplc |-> Some(100)]}

DmmBench == [func |-> "none", reads |-> <<>>, seen |-> 0]

ScopeBench ==
    [display  |-> [c \in ScopeChannels |-> FALSE],
     scale    |-> [c \in ScopeChannels |-> 1000],
     offset   |-> [c \in ScopeChannels |-> 0],
     coupling |-> [c \in ScopeChannels |-> DC],
     probe    |-> [c \in ScopeChannels |-> 1]]

ScopeArgs(channel, vertical_scale, vertical_offset, coupling, probe_attenuation) ==
    [channel |-> channel, vertical_scale |-> vertical_scale,
     vertical_offset |-> vertical_offset, coupling |-> coupling,
     probe_attenuation |-> probe_attenuation]

\* Oscilloscope configure_channel arguments: valid ones, a scale between two
\* supported ones, channels outside 1..4 and couplings outside AC, DC, GND.
ScopeProbes ==
    {ScopeArgs(1, 1000, 0, DC, 1),
     ScopeArgs(2, 15, 0 - 50, <<"a", "c">>, 10),
     ScopeArgs(0, 1000, 0, DC, 1),
     ScopeArgs(5, 1000, 0, DC, 1),
     ScopeArgs(1, 1000, 0, <<"X", "X">>, 1),
     ScopeArgs(1, 1000, 0, <<>>, 1)}

---------------------------------------------------------------------------
(* EnhancedInstrumentAutomationSystem (instrument_automation_system_enhanced.py) *)

\* The test sequence calls the drivers one after the other; x is the state of
\* the two sessions and instruments as the sequence goes, with the transport
\* log of all calls and the result of each driver call (steps).  The system
\* holds a power supply object; it holds a multimeter object or none
\* (c.multimeter), and no oscilloscope.  fs gives each driver call its own
\* fault pattern.

SequencePsu(x, step, r) ==
    [x EXCEPT !.psu = r.s, !.psuHw = r.hw, !.log = @ \o r.log,
              !.steps = Append(@, [step |-> step, ret |-> r.ret])]

SequenceDmm(x, step, r) ==
    [x EXCEPT !.dmm = r.s, !.dmmHw = r.hw, !.log = @ \o r.log,
              !.steps = Append(@, [step |-> step, ret |-> r.ret])]

\* return True or False; an exception ends in the except clause, with False.
SequenceEnd(x, ret) == [x EXCEPT !.ret = ret]

\* KeithleyDMM6500.check_instrument_errors on an instrument with no error
\* waiting: one query, and one entry in the list when the query raises.
check_instrument_errors(s, hw, f) ==
    IF ~s.connected THEN Refused(s, hw, "Errors")
    ELSE Ended(s, Query(Machine(hw), f, "SYST:ERR:NEXT?").m,
               IF FaultAt(f, 1) = "ok" THEN "NoErrors" ELSE "Errors")

\* Steps 5 to 7 with no oscilloscope: the error check, then the result record,
\* whose measurement_accuracy is a name never assigned when there was no
\* multimeter voltage.
SequenceMeasured(x, c, fs, dmm_voltage) ==
    SequenceEnd(IF c.multimeter
                THEN SequenceDmm(x, "errors",
                                 check_instrument_errors(x.dmm, x.dmmHw, fs.errors))
                ELSE x,
                IF dmm_voltage THEN "True" ELSE "False")

\* Step 4: statistics or one measure_dc_voltage, when there is a multimeter.
SequenceStatistics(x, c, fs, r) ==
    IF r.ret = "ValueError" THEN SequenceEnd(SequenceDmm(x, "voltage", r), "False")
    ELSE SequenceMeasured(SequenceDmm(x, "voltage", r), c, fs, r.ret \in {"Dict", "Float"})

SequenceVerified(x, c, fs) ==
    IF ~c.multimeter THEN SequenceMeasured(x, c, fs, FALSE)
    ELSE IF c.enable_statistics
    THEN SequenceStatistics(x, c, fs,
            DmmStatisticsOp(x.dmm, x.dmmHw, fs.voltage,
                            [measurement_count |-> c.measurement_count,
                             measurement_interval |-> 100]))
    ELSE SequenceStatistics(x, c, fs,
            DmmMeasureDcOp(x.dmm, x.dmmHw, [f |-> fs.voltage, timed_out |-> FALSE],
                           [measurement_range |-> None, resolution |-> Some(1000),
                            nplc |-> Some(100)]))

\* Step 3, second part: measure_channel_output must give a tuple.
SequenceOutput(x, c, fs, r) ==
    IF r.ret # "Tuple" THEN SequenceEnd(SequencePsu(x, "measure", r), "False")
    ELSE SequenceVerified(SequencePsu(x, "measure", r), c, fs)

\* Step 3: enable_channel_output must return True.
SequenceEnabled(x, c, fs, r) ==
    IF r.ret # "True" THEN SequenceEnd(SequencePsu(x, "enable", r), "False")
    ELSE SequenceOutput(SequencePsu(x, "enable", r), c, fs,
                        PsuMeasureOp(r.s, r.hw, fs.measure, c.channel))

\* A sequence that enables the output whatever the resistance measurement gave.
SequenceResistanceIgnored(x, c, fs, r) ==
    SequenceEnabled(SequenceDmm(x, "resistance", r), c, fs,
                    PsuEnableOp(x.psu, x.psuHw, fs.enable, c.channel))

\* Step 2: measure_resistance_2w must give a value.
SequenceResistance(x, c, fs, r) ==
    IF r.ret # "Float" THEN SequenceEnd(SequenceDmm(x, "resistance", r), "False")
    ELSE SequenceEnabled(SequenceDmm(x, "resistance", r), c, fs,
                         PsuEnableOp(x.psu, x.psuHw, fs.enable, c.channel))

\* Step 1 done: _configure_power_supply returned True.
SequenceConfigured(x, c, fs) ==
    IF c.multimeter
    THEN SequenceResistance(x, c, fs,
            DmmMeasureOp(x.dmm, x.dmmHw, [f |-> fs.resistance, timed_out |-> FALSE],
                         [function |-> "RES", measurement_range |-> None,
                          resolution |-> None, nplc |-> None]))
    ELSE SequenceEnabled(x, c, fs, PsuEnableOp(x.psu, x.psuHw, fs.enable, c.channel))

\* EnhancedInstrumentAutomationSystem._configure_power_supply: the over-voltage
\* level is 1 V above the voltage, the output is left disabled; an exception
\* of configure_channel gives False.
_configure_power_supply(x, c, fs) ==
    PsuConfigureOp(x.psu, x.psuHw, fs.configure,
                   [channel |-> c.channel, voltage |-> c.voltage,
                    current_limit |-> c.current_limit, ovp_level |-> Some(c.voltage + UV),
                    enable_output |-> FALSE])

\* Step 1: the configuration must succeed.
SequenceStarted(x, c, fs, r) ==
    IF r.ret # "True" THEN SequenceEnd(SequencePsu(x, "configure", r), "False")
    ELSE SequenceConfigured(SequencePsu(x, "configure", r), c, fs)

\* EnhancedInstrumentAutomationSystem._execute_test_sequence
_execute_test_sequence(x, c, fs) == SequenceStarted(x, c, fs, _configure_power_supply(x, c, fs))

---------------------------------------------------------------------------
(* State *)

NoArgs == [none |-> TRUE]

\* The record kept of a method call; pre: what the session and the outputs
\* were when it was made.
Called(op, args, r, pre) ==
    [op |-> op, args |-> args, pre |-> pre, ret |-> r.ret, val |-> r.val, log |-> r.log,
     opened |-> r.opened, closed |-> r.closed, dropped |-> r.dropped]

InitWith(benches, track) ==
    /\ psu = PsuNew
    /\ psuHw \in benches
    /\ dmm = DmmNew
    /\ dmmHw = DmmBench
    /\ scope = ScopeNew
    /\ scopeHw = ScopeBench
    /\ last = [op |-> "init", args |-> NoArgs, pre |-> NoArgs, ret |-> "None", val |-> None, log |-> <<>>,
               opened |-> 0, closed |-> 0, dropped |-> 0]
    /\ ncOp = IF track THEN "none" ELSE "untracked"
    /\ gui = GuiNew

\* The effect of a power-supply method on the state.
PsuStep(op, args, r) ==
    /\ psu' = r.s
    /\ psuHw' = r.hw
    /\ last' = Called(op, args, r, [connected |-> psu.connected, out |-> psuHw.out])
    /\ ncOp' = IF r.ret = "NotConnected" /\ ncOp # "untracked" THEN op ELSE ncOp
    /\ UNCHANGED <<dmm, dmmHw, scope, scopeHw, gui>>

\* Transport calls of a connect to a three-channel model.
PsuConnectCalls == 3 + 2 + 4 * 3 + 1

\* Transport calls of a disconnect of a three-channel model.
PsuDisconnectCalls == 3 * 3 + 1 + 2

\* Transport calls of a configure_channel up to its first voltage write:
\* disable, select, read the setpoint, voltage.
PsuConfigureCalls == 3 + 1 + 2 + 1

\* Transport calls of a configure_channel that sets the voltage in one step,
\* sets an OVP level and enables the output: the same, then current limit,
\* OVP level and state, read-back, enable.
PsuEnablingCalls == PsuConfigureCalls + 1 + 2 + 2 + 3

\* One call of the enable step raises.
LateFaults == {f \in FaultPatterns(PsuEnablingCalls) : f.pos > PsuEnablingCalls - 3}

PsuConnect(F, I) ==
    \E f \in F, idn \in I :
        PsuStep("psu.connect", [idn |-> idn],
                PsuConnectOp(psu, [psuHw EXCEPT !.idn = idn], f))

PsuDisconnect(F) ==
    \E f \in F : PsuStep("psu.disconnect", NoArgs, PsuDisconnectOp(psu, psuHw, f))

PsuConfigure(F, A) ==
    \E f \in F, a \in A :
        PsuStep("psu.configure_channel", a, PsuConfigureOp(psu, psuHw, f, a))

PsuEnable(F, C) ==
    \E f \in F, c \in C :
        PsuStep("psu.enable_channel_output", [channel |-> c, fault |-> f],
                PsuEnableOp(psu, psuHw, f, c))

PsuDisable(F, C) ==
    \E f \in F, c \in C :
        PsuStep("psu.disable_channel_output", [channel |-> c, fault |-> f],
                PsuDisableOp(psu, psuHw, f, c))

\* The instrument has the answers of meas ready for the call.
PsuMeasure(F, C, T) ==
    \E f \in F, c \in C, meas \in T :
        PsuStep("psu.measure_channel_output", [channel |-> c, meas |-> meas],
                [PsuMeasureOp(psu, [psuHw EXCEPT !.meas = meas], f, c)
                    EXCEPT !.hw.meas = NoMeas])

\* The effect of a multimeter method on the state; the answers the
\* instrument had ready for the call are gone after it.  The record of the
\* call says what a measure() right before it received and returned, and
\* whether its reading timed out.
DmmStep(op, args, r) ==
    /\ dmm' = r.s
    /\ dmmHw' = [r.hw EXCEPT !.reads = <<>>, !.seen = 0]
    /\ last' = Called(op, args, r,
                      [connected |-> dmm.connected,
                       reads |-> IF last.op = "dmm.measure" THEN last.args.reads ELSE <<>>,
                       ret   |-> IF last.op = "dmm.measure" THEN last.ret ELSE "None",
                       timed_out |-> /\ last.op = "dmm.measure"
                                     /\ last.args.timed_out
                                     /\ \E i \in DOMAIN last.log :
                                          last.log[i].cmd = "READ?" /\ ~last.log[i].ok])
    /\ UNCHANGED <<psu, psuHw, scope, scopeHw, ncOp, gui>>

\* Transport calls of a multimeter connect and disconnect.
DmmConnectCalls == 2 + 7
DmmDisconnectCalls == 2 + 2

DmmConnect(F) ==
    \E f \in F : DmmStep("dmm.connect", NoArgs, DmmConnectOp(dmm, dmmHw, f))

DmmDisconnect(F) ==
    \E f \in F : DmmStep("dmm.disconnect", NoArgs, DmmDisconnectOp(dmm, dmmHw, f))

DmmStatistics(F, A, T) ==
    \E f \in F, a \in A :
      \E reads \in ReadSeqs(T, a.measurement_count) :
        DmmStep("dmm.perform_measurement_statistics",
                [measurement_count    |-> a.measurement_count,
                 measurement_interval |-> a.measurement_interval,
                 reads                |-> reads],
                DmmStatisticsOp(dmm, [dmmHw EXCEPT !.reads = reads], f, a))

\* Transport calls of a measure() with range, resolution and integration time.
DmmMeasureCalls == 3 + 3 + 1

DmmMeasure(F, A, T) ==
    \E f \in F, a \in A, text \in T :
      \E timed_out \in (IF f.kind = "visa" THEN BOOLEAN ELSE {FALSE}) :
        DmmStep("dmm.measure",
                [function |-> a.function, measurement_range |-> a.measurement_range,
                 resolution |-> a.resolution, nplc |-> a.nplc,
                 fault |-> f, timed_out |-> timed_out, reads |-> <<text>>],
                DmmMeasureOp(dmm, [dmmHw EXCEPT !.reads = <<text>>],
                             [f |-> f, timed_out |-> timed_out], a))

DmmMeasureDc(F, A, T) ==
    \E f \in F, a \in A, text \in T :
      \E timed_out \in (IF f.kind = "visa" THEN BOOLEAN ELSE {FALSE}) :
        DmmStep("dmm.measure_dc_voltage",
                [function |-> "VOLT:DC", measurement_range |-> a.measurement_range,
                 resolution |-> a.resolution, nplc |-> a.nplc,
                 fault |-> f, timed_out |-> timed_out, reads |-> <<text>>],
                DmmMeasureDcOp(dmm, [dmmHw EXCEPT !.reads = <<text>>],
                               [f |-> f, timed_out |-> timed_out], a))

\* The effect of an oscilloscope method on the state.
ScopeStep(op, args, r) ==
    /\ scope' = r.s
    /\ scopeHw' = r.hw
    /\ last' = Called(op, args, r, [connected |-> scope.connected])
    /\ ncOp' = IF r.ret = "NotConnected" /\ ncOp # "untracked" THEN op ELSE ncOp
    /\ UNCHANGED <<psu, psuHw, dmm, dmmHw, gui>>

\* Transport calls of an oscilloscope connect (with the closes of a failed
\* one) and disconnect.
ScopeConnectCalls == 2 + 3 + 2
ScopeDisconnectCalls == 2

ScopeConnect(F) ==
    \E f \in F : ScopeStep("scope.connect", NoArgs, ScopeConnectOp(scope, scopeHw, f))

ScopeDisconnect(F) ==
    \E f \in F : ScopeStep("scope.disconnect", NoArgs, ScopeDisconnectOp(scope, scopeHw, f))

ScopeConfigure(F, A) ==
    \E f \in F, a \in A :
        ScopeStep("scope.configure_channel", a, ScopeConfigureOp(scope, scopeHw, f, a))

\* The effect of the test sequence on the state; the answers the
\* instruments had ready for it are gone after it.
AutoStep(args, x) ==
    /\ psu' = x.psu
    /\ psuHw' = [x.psuHw EXCEPT !.meas = NoMeas]
    /\ dmm' = x.dmm
    /\ dmmHw' = [x.dmmHw EXCEPT !.reads = <<>>, !.seen = 0]
    /\ last' = [op |-> "auto._execute_test_sequence", args |-> args,
                pre |-> [connected |-> psu.connected, out |-> psuHw.out,
                         dmm |-> dmm.connected],
                ret |-> x.ret, val |-> Some(x.steps), log |-> x.log,
                opened |-> 0, closed |-> 0, dropped |-> 0]
    /\ UNCHANGED <<scope, scopeHw, ncOp, gui>>

\* The test sequence: the instruments have the answers of the call ready
\* (the multimeter's readings, the power supply's measurements).
AutoSequence(C, FS, R, M) ==
    \E c \in C, fs \in FS, reads \in R, meas \in M :
        AutoStep([config |-> c, faults |-> fs, reads |-> reads, meas |-> meas],
                 _execute_test_sequence(
                     [psu |-> psu, psuHw |-> [psuHw EXCEPT !.meas = meas],
                      dmm |-> dmm, dmmHw |-> [dmmHw EXCEPT !.reads = reads],
                      log |-> <<>>, steps |-> <<>>, ret |-> "None"], c, fs))

\* A step of the GUI or of one of its threads.
GuiStep(g) ==
    /\ gui' = g
    /\ UNCHANGED <<psu, psuHw, dmm, dmmHw, scope, scopeHw, last, ncOp>>

\* The Tk thread is free to run a callback.
GuiReady == gui.running /\ gui.toggling = 0

\* A worker thread can be started: a slot is free and its status fits the queue.
CanStart(w) ==
    /\ gui.workers[w].kind = "idle"
    /\ Cardinality(Alive(gui)) + Len(gui.status_queue) < MaxPending

GuiConnectClick ==
    \E w \in 1..MaxWorkers :
        /\ GuiReady /\ gui.connect_btn /\ CanStart(w)
        /\ Len(gui.sessions)
             + Cardinality({v \in Alive(gui) : gui.workers[v] = Started(gui, v, "connect").workers[v]})
             < MaxSessions
        /\ GuiStep(connect_oscilloscope(gui, w))

GuiConnectThread ==
    \E w \in 1..MaxWorkers, empty \in BOOLEAN, ok \in BOOLEAN :
        /\ gui.workers[w].kind = "connect"
        /\ GuiStep(connect_thread(gui, w, empty, ok))

GuiDisconnectClick ==
    /\ GuiReady /\ gui.disconnect_btn /\ gui.oscilloscope # 0
    /\ GuiStep(disconnect_oscilloscope(gui))

GuiOperationClick ==
    \E w \in 1..MaxWorkers, kind \in {"configure", "screenshot", "acquire", "automation"} :
        /\ GuiReady /\ gui.operation_btns /\ CanStart(w)
        /\ OperationStarts(gui, kind)
        /\ GuiStep(Started(gui, w, kind))

GuiOperationThread ==
    \E w \in 1..MaxWorkers, selected \in BOOLEAN, ok \in BOOLEAN :
        /\ gui.workers[w].kind \in {"configure", "screenshot", "acquire", "automation"}
        /\ GuiStep(operation_thread(gui, w, selected, ok))

\* toggle_channel_display: the write begins, and ends before the callback returns.
GuiToggle ==
    /\ GuiReady /\ IsConnected(gui, gui.oscilloscope)
    /\ GuiStep([Begin(gui, gui.oscilloscope) EXCEPT !.toggling = gui.oscilloscope])

GuiToggled ==
    /\ gui.running /\ gui.toggling # 0
    /\ GuiStep([Finish(gui, gui.toggling) EXCEPT !.toggling = 0])

GuiCheckStatus ==
    /\ GuiReady /\ gui.status_queue # <<>>
    /\ GuiStep(check_status_updates(gui))

GuiExit ==
    /\ GuiReady
    /\ GuiStep(run(gui))

---------------------------------------------------------------------------
(* Specifications *)

\* Validation of configure_channel against the limits of every supported model.
InitPsu == InitWith(PsuBenchOff, FALSE)
NextPsu ==
    \/ PsuConnect(NoFaults, SupportedIdns)
    \/ PsuDisconnect(NoFaults)
    \/ PsuConfigure(NoFaults, ConfigureProbes)
SpecPsu == InitPsu /\ [][NextPsu]_vars

\* Calls on sessions that are not connected, and the same calls later.
InitNotConnected == InitWith(PsuBenchOff, TRUE)
NextNotConnected ==
    \/ PsuConnect(NoFaults, {Idn2230})
    \/ PsuDisconnect(NoFaults)
    \/ PsuConfigure(NoFaults, {Args(1, 25 * UV, 1 * UV, None, FALSE),
                               Args(2, 3 * UV, 1 * UV, Some(4 * UV), TRUE)})
    \/ PsuEnable(NoFaults, {1, 2})
    \/ PsuDisable(NoFaults, {1, 2})
    \/ ScopeConnect(NoFaults)
    \/ ScopeDisconnect(NoFaults)
    \/ ScopeConfigure(NoFaults, {ScopeArgs(1, 1000, 0, DC, 1)})
SpecNotConnected == InitNotConnected /\ [][NextNotConnected]_vars

\* Connecting and disconnecting the power supply on a transport with faults.
InitPsuFaults == InitWith(PsuBenchLive, FALSE)
NextPsuFaults ==
    \/ PsuConnect(FaultPatterns(PsuConnectCalls), {Idn2230})
    \/ PsuDisconnect(FaultPatterns(PsuDisconnectCalls))
SpecPsuFaults == InitPsuFaults /\ [][NextPsuFaults]_vars

\* The power supply's channel operations on a transport without faults.
InitPsuOps == InitWith(PsuBenchOff, FALSE)
NextPsuOps ==
    \/ PsuConnect(NoFaults, {Idn2230})
    \/ PsuDisconnect(NoFaults)
    \/ PsuConfigure(NoFaults, {Args(1, 25 * UV, 1 * UV, None, FALSE),
                               Args(2, 3 * UV, 1 * UV, Some(4 * UV), TRUE)})
    \/ PsuEnable(NoFaults, {1, 2})
    \/ PsuDisable(NoFaults, {1, 2})
    \/ PsuMeasure(NoFaults, {1, 2}, MeasTexts)
SpecPsuOps == InitPsuOps /\ [][NextPsuOps]_vars

\* One session object connected to one model after another, supported or not.
InitPsuModels == InitWith(PsuBenchOff, FALSE)
NextPsuModels ==
    \/ PsuConnect(NoFaults, AllIdns)
    \/ PsuDisconnect(NoFaults)
    \/ PsuConfigure(NoFaults, {Args(c, 25 * UV, 1 * UV, None, FALSE) : c \in {1, 2}})
SpecPsuModels == InitPsuModels /\ [][NextPsuModels]_vars

\* configure_channel on a transport with faults.
InitPsuConfigureFaults == InitWith(PsuBenchOff, FALSE)
NextPsuConfigureFaults ==
    \/ PsuConnect(NoFaults, {Idn2230})
    \/ PsuEnable(NoFaults, {1})
    \/ PsuConfigure(FaultPatterns(PsuConfigureCalls),
                    {Args(1, 3 * UV, 1 * UV, None, FALSE),
                     Args(2, 4 * UV, 1 * UV, Some(5 * UV), FALSE)})
    \/ PsuConfigure(LateFaults \cup NoFaults, {Args(2, 4 * UV, 1 * UV, Some(5 * UV), TRUE)})
SpecPsuConfigureFaults == InitPsuConfigureFaults /\ [][NextPsuConfigureFaults]_vars

\* Voltage changes up and down, of less and of more than one step.
RampVolts == {0, 7, 5 * UV, 5 * UV + 1, 10 * UV - 1, 12 * UV, 30 * UV}
InitPsuRamp == InitWith(PsuBenchOff, FALSE)
NextPsuRamp ==
    \/ PsuConnect(NoFaults, {Idn2230})
    \/ PsuDisconnect(NoFaults)
    \/ PsuConfigure(NoFaults, {Args(1, v, 1 * UV, None, FALSE) : v \in RampVolts})
SpecPsuRamp == InitPsuRamp /\ [][NextPsuRamp]_vars

\* Transport calls of enable_channel_output and disable_channel_output: the
\* channel select, the switch and the read-back query.
PsuOutputCalls == 1 + 1 + 1

\* Enabling and disabling outputs on a transport with faults, one output
\* not following the command.
InitPsuVerify == InitWith(PsuBenchStuck, FALSE)
NextPsuVerify ==
    \/ PsuConnect(NoFaults, {Idn2230})
    \/ PsuConfigure(NoFaults, {Args(c, 3 * UV, 1 * UV, None, FALSE) : c \in {1, 2}})
    \/ PsuEnable(FaultPatterns(PsuOutputCalls), {1, 2})
    \/ PsuDisable(FaultPatterns(PsuOutputCalls), {1, 2})
SpecPsuVerify == InitPsuVerify /\ [][NextPsuVerify]_vars

\* One connect, then configure, enable and disable calls on a transport with
\* faults; every output follows the commands that reach the instrument.
InitPsuFlags == InitWith(PsuBenchOff, FALSE)
NextPsuFlags ==
    \/ (~psu.connected /\ PsuConnect(NoFaults, {Idn2230}))
    \/ PsuConfigure(FaultPatterns(PsuConfigureCalls), {Args(1, 3 * UV, 1 * UV, None, FALSE)})
    \/ PsuConfigure(NoFaults, {Args(2, 3 * UV, 1 * UV, None, TRUE)})
    \/ PsuEnable(FaultPatterns(PsuOutputCalls), {1, 2})
    \/ PsuDisable(FaultPatterns(PsuOutputCalls), {1, 2})
SpecPsuFlags == InitPsuFlags /\ [][NextPsuFlags]_vars

\* configure_channel with and without over-voltage protection levels.
InitPsuOvp == InitWith(PsuBenchOff, FALSE)
NextPsuOvp ==
    \/ PsuConnect(NoFaults, {Idn2230})
    \/ PsuDisconnect(NoFaults)
    \/ PsuConfigure(NoFaults, OvpArgs)
SpecPsuOvp == InitPsuOvp /\ [][NextPsuOvp]_vars

\* The oscilloscope on a transport with faults.
InitScopeFaults == InitWith(PsuBenchOff, FALSE)
NextScopeFaults ==
    \/ ScopeConnect(FaultPatterns(ScopeConnectCalls))
    \/ ScopeDisconnect(FaultPatterns(ScopeDisconnectCalls))
    \/ ScopeConfigure(NoFaults, ScopeProbes)
SpecScopeFaults == InitScopeFaults /\ [][NextScopeFaults]_vars

\* Statistics on the multimeter.
InitDmm == InitWith(PsuBenchOff, FALSE)
NextDmm ==
    \/ DmmConnect(NoFaults)
    \/ DmmDisconnect(NoFaults)
    \/ DmmStatistics(NoFaults, StatArgs, ReadTexts)
SpecDmm == InitDmm /\ [][NextDmm]_vars

\* measure() on a transport with faults, between connects and statistics.
InitDmmMeasure == InitWith(PsuBenchOff, FALSE)
NextDmmMeasure ==
    \/ DmmConnect(NoFaults)
    \/ DmmDisconnect(NoFaults)
    \/ DmmMeasure(NoFaults, MeasureArgs, MeasureTexts)
    \/ DmmMeasure(FaultPatterns(DmmMeasureCalls), {MeasureAll}, {Read25, ReadErr})
    \/ DmmStatistics(NoFaults, [measurement_count : {2}, measurement_interval : {0 - 1, 100}],
                     {Read25, ReadErr})
SpecDmmMeasure == InitDmmMeasure /\ [][NextDmmMeasure]_vars

\* measure() and measure_dc_voltage() with range, resolution and integration
\* time on a transport with faults.
InitDmmFaults == InitWith(PsuBenchOff, FALSE)
NextDmmFaults ==
    \/ DmmConnect(NoFaults)
    \/ DmmDisconnect(NoFaults)
    \/ DmmMeasure(FaultPatterns(DmmMeasureCalls), {MeasureAll}, {Read25})
    \/ DmmMeasureDc(FaultPatterns(DmmMeasureCalls), {MeasureAll}, {Read25, ReadErr})
SpecDmmFaults == InitDmmFaults /\ [][NextDmmFaults]_vars

\* Ranges asked for: below, between, on and above the entries of each table.
RangesAsked == {0 - 5, 0, 7, 100, 5 * UV, 2000 * UV}
RangedFunctions == {"VOLT:AC", "CURR:DC", "RES"}
RangedArgs ==
    [function : RangedFunctions, measurement_range : {Some(r) : r \in RangesAsked},
     resolution : {None}, nplc : {None}]

\* measure() and measure_dc_voltage() with a range, on a transport without faults.
InitDmmRanges == InitWith(PsuBenchOff, FALSE)
NextDmmRanges ==
    \/ DmmConnect(NoFaults)
    \/ DmmDisconnect(NoFaults)
    \/ DmmMeasure(NoFaults, RangedArgs, {Read25})
    \/ DmmMeasureDc(NoFaults, RangedArgs, {Read25})
SpecDmmRanges == InitDmmRanges /\ [][NextDmmRanges]_vars

\* Test configurations: 3 V and 1 A on channel 1, with or without a
\* multimeter, one voltage measurement or statistics over 1 or 2 samples.
SequenceConfigs ==
    [channel : {1}, voltage : {3 * UV}, current_limit : {1 * UV}, multimeter : BOOLEAN,
     enable_statistics : BOOLEAN, measurement_count : {1, 2}]

\* One voltage measurement with a multimeter.
SequencePlain ==
    [channel |-> 1, voltage |-> 3 * UV, current_limit |-> 1 * UV, multimeter |-> TRUE,
     enable_statistics |-> FALSE, measurement_count |-> 1]

\* The driver calls of the sequence, and fault plans with one of them on a
\* faulty transport.
SequenceCalls == {"configure", "resistance", "enable", "measure", "voltage", "errors"}
SequenceFault == {[pos |-> 1, kind |-> "visa", sticky |-> FALSE],
                  [pos |-> 2, kind |-> "other", sticky |-> TRUE]}
SequenceNoFaults == [k \in SequenceCalls |-> NoFault]
SequenceFaults ==
    {[k \in SequenceCalls |-> IF k = call THEN f ELSE NoFault] :
            call \in SequenceCalls, f \in SequenceFault}

\* Answers of the multimeter to the readings of a sequence, and of the power
\* supply to its measurement queries.
SequenceReads == {<<Read25, Read25, Read15>>, <<ReadErr, Read25, Read25>>,
                  <<Read25, ReadErr, ReadErr>>}
SequenceMeas == {[voltage |-> <<"3", ".", "0", "1", "\n">>, current |-> Meas0],
                 [voltage |-> <<"3", ".", "0", "1", "\n">>, current |-> MeasEmpty]}

\* The automation system's test sequence on connected and unconnected sessions.
InitAuto == InitWith(PsuBenchOff, FALSE)
NextAuto ==
    \/ PsuConnect(NoFaults, {Idn2230})
    \/ PsuDisconnect(NoFaults)
    \/ DmmConnect(NoFaults)
    \/ AutoSequence(SequenceConfigs, {SequenceNoFaults}, SequenceReads, SequenceMeas)
    \/ AutoSequence({SequencePlain}, SequenceFaults, {<<Read25, Read25, Read15>>}, SequenceMeas)
SpecAuto == InitAuto /\ [][NextAuto]_vars

\* The oscilloscope GUI: clicks, worker threads and the status loop interleaved.
InitGui == InitWith(PsuBenchOff, FALSE)
NextGui ==
    \/ GuiConnectClick
    \/ GuiConnectThread
    \/ GuiDisconnectClick
    \/ GuiOperationClick
    \/ GuiOperationThread
    \/ GuiToggle
    \/ GuiToggled
    \/ GuiCheckStatus
    \/ GuiExit
SpecGui == InitGui /\ [][NextGui]_vars

\* The three sessions side by side: calls with arguments that fail validation.
Init == InitWith(PsuBenchOff, FALSE)
Next ==
    \/ PsuConnect(NoFaults, {Idn2230})
    \/ PsuDisconnect(NoFaults)
    \/ PsuConfigure(NoFaults, {Args(1, 25 * UV, 1 * UV, None, FALSE),
                               Args(4, 25 * UV, 1 * UV, None, FALSE),
                               Args(1, 30 * UV + 1, 1 * UV, None, FALSE),
                               Args(1, 25 * UV, MinCurrent - 1, None, FALSE)})
    \/ PsuEnable(NoFaults, {1, 4})
    \/ PsuDisable(NoFaults, {1, 0})
    \/ DmmConnect(NoFaults)
    \/ DmmDisconnect(NoFaults)
    \/ DmmStatistics(NoFaults, [measurement_count : {1, 2}, measurement_interval : {100}],
                     {Read25})
    \/ ScopeConnect(NoFaults)
    \/ ScopeDisconnect(NoFaults)
    \/ ScopeConfigure(NoFaults, {ScopeArgs(1, 1000, 0, DC, 1),
                                 ScopeArgs(5, 1000, 0, DC, 1),
                                 ScopeArgs(1, 1000, 0, <<"X", "X">>, 1)})
Spec == Init /\ [][Next]_vars

---------------------------------------------------------------------------
(* Properties *)

PsuGuarded ==
    {"psu.configure_channel", "psu.enable_channel_output", "psu.disable_channel_output"}

\* C1: disconnect() of each of the three sessions returns without raising and
\* leaves is_connected False, whatever call inside it raises.
C1_DisconnectNeverRaises ==
    /\ last.op = "psu.disconnect" => last.ret = "None" /\ ~psu.connected
    /\ last.op = "dmm.disconnect" => last.ret = "None" /\ ~dmm.connected
    /\ last.op = "scope.disconnect" => last.ret = "None" /\ ~scope.connected

\* C2: after a power-supply connect() that returned True, every channel
\* 1..max_channels has its output off and its setpoint at 0 on the instrument.
C2_SafeAfterConnect ==
    (last.op = "psu.connect" /\ last.ret = "True")
        => \A c \in 1..psu.max_channels : ~psuHw.out[c] /\ psuHw.volt[c] = 0

\* C3: configure_channel with an ovp_level not above the voltage reports
\* success, and the level applied and stored is voltage + 1.0.
C3_OvpClamped ==
    (/\ last.op = "psu.configure_channel"
     /\ psu.connected
     /\ ChannelValid(psu, last.args.channel)
     /\ VoltageValid(psu, last.args.voltage)
     /\ CurrentValid(psu, last.args.current_limit)
     /\ last.args.ovp_level # None
     /\ Get(last.args.ovp_level) <= last.args.voltage)
        => /\ last.ret = "True"
           /\ psu.configs[last.args.channel] # None
           /\ Get(psu.configs[last.args.channel]).ovp_level = Some(last.args.voltage + 1 * UV)
           /\ psuHw.ovp[last.args.channel] = last.args.voltage + 1 * UV
           /\ psuHw.ovpOn[last.args.channel]

\* C4: on a connected power supply configure_channel fails validation exactly
\* for a channel outside 1..max_channels, a voltage outside 0..max_voltage or a
\* current limit outside 0.001..max_current, with the limits of the model that
\* answered the identification query: 3 / 30 V / 3 A for the 2230 and 2231,
\* 1 / 72 V / 6 A for the 2280, 1 / 600 V / 10 A for the 2260 and 2268.
C4_ValidationPerModel ==
    [][(psu.connected /\ last'.op = "psu.configure_channel")
        => LET lim == IF psuHw.idn \in {Idn2230, Idn2231} THEN <<3, 30 * UV, 3 * UV>>
                      ELSE IF psuHw.idn = Idn2280 THEN <<1, 72 * UV, 6 * UV>>
                      ELSE <<1, 600 * UV, 10 * UV>>
               a   == last'.args
           IN  (last'.ret = "ValueError")
                 <=> ~(/\ 1 <= a.channel /\ a.channel <= lim[1]
                       /\ 0 <= a.voltage /\ a.voltage <= lim[2]
                       /\ 1000 <= a.current_limit /\ a.current_limit <= lim[3])]_vars

\* C4 happens: a 2280 is connected and 72.000001 V was rejected.
C4_Witness ==
    /\ last.op = "psu.configure_channel" /\ last.ret = "ValueError"
    /\ psu.connected /\ psuHw.idn = Idn2280
    /\ last.args.voltage = 72 * UV + 1

\* C5: a configure_channel that rejects a parameter issues no transport call
\* and changes neither the instrument nor the stored channel records.
C5_RejectionTouchesNothing ==
    [][(last'.op = "psu.configure_channel" /\ last'.ret = "ValueError")
        => (last'.log = <<>> /\ psu' = psu /\ psuHw' = psuHw)]_vars

\* C5 happens: 30.000001 V was rejected on a 30 V model that holds a record
\* for the channel.
C5_Witness ==
    /\ last.op = "psu.configure_channel" /\ last.ret = "ValueError"
    /\ psu.max_voltage = 30 * UV /\ last.args.voltage = 30 * UV + 1
    /\ psu.configs[1] # None

\* The call just made failed validation on a connected session.
ValidationFailed ==
    \/ /\ psu.connected /\ last'.op = "psu.configure_channel"
       /\ ~(/\ ChannelValid(psu, last'.args.channel)
            /\ VoltageValid(psu, last'.args.voltage)
            /\ CurrentValid(psu, last'.args.current_limit))
    \/ /\ psu.connected
       /\ last'.op \in {"psu.enable_channel_output", "psu.disable_channel_output"}
       /\ ~ChannelValid(psu, last'.args.channel)
    \/ /\ dmm.connected /\ last'.op = "dmm.perform_measurement_statistics"
       /\ last'.args.measurement_count < 2
    \/ /\ scope.connected /\ last'.op = "scope.configure_channel"
       /\ (\/ last'.args.channel \notin ScopeChannels
           \/ Upper(last'.args.coupling) \notin {AC, DC, GND})

C7_FailedConnectCloses ==
    (last.op = "psu.connect" /\ last.ret # "True")
        => /\ last.closed = last.opened
           /\ ~psu.connected /\ psu.inst = "None" /\ psu.rm = "None"

\* C8: a power-supply disconnect() whose close calls do not raise drops no
\* reference to a handle that is still open, whatever raised before them.
C8_DisconnectCloses ==
    (/\ last.op = "psu.disconnect"
     /\ \A i \in 1..Len(last.log) :
           last.log[i].cmd \in {"inst.close", "rm.close"} => last.log[i].ok)
        => last.dropped = 0

\* C9: configure_channel, enable_channel_output and disable_channel_output on
\* a session that is not connected fail with the not-connected error, issue no
\* transport call and change nothing; the same calls on the connected session
\* succeed, also after they failed that way.
C9_NotConnected ==
    [][/\ (~psu.connected /\ last'.op \in PsuGuarded)
            => /\ last'.ret = "NotConnected" /\ last'.log = <<>>
               /\ psu' = psu /\ psuHw' = psuHw
       /\ (~scope.connected /\ last'.op = "scope.configure_channel")
            => /\ last'.ret = "NotConnected" /\ last'.log = <<>>
               /\ scope' = scope /\ scopeHw' = scopeHw
       /\ (psu.connected /\ last'.op \in PsuGuarded) => last'.ret = "True"
       /\ (scope.connected /\ last'.op = "scope.configure_channel")
            => last'.ret = "True"]_vars

\* C9 happens: enable_channel_output failed on the disconnected session and,
\* after a connect, has succeeded.
C9_Witness ==
    /\ ncOp = "psu.enable_channel_output"
    /\ last.op = "psu.enable_channel_output" /\ last.ret = "True"
    /\ psuHw.out[last.args.channel]

\* C10: perform_measurement_statistics on a connected multimeter with a
\* measurement_count below 2 is rejected without a transport call.
C10_CountBelowTwo ==
    [][(/\ dmm.connected /\ last'.op = "dmm.perform_measurement_statistics"
        /\ last'.args.measurement_count < 2)
        => /\ last'.ret = "ValueError" /\ last'.log = <<>>
           /\ dmm' = dmm /\ dmmHw' = dmmHw]_vars

\* C10 happens: a connected multimeter was asked for one sample.
C10_Witness ==
    /\ last.op = "dmm.perform_measurement_statistics"
    /\ last.args.measurement_count = 1
    /\ dmm.connected /\ last.ret = "ValueError"

\* Measurement attempts in a transport log: each begins with one *CLS write.
Attempts(log) == Cardinality({i \in 1..Len(log) : log[i].cmd = "*CLS"})

IsReading(text) == text # ReadErr

\* The values of the answers that are readings: 1.5 V and 2.5 V.
RECURSIVE ReadingSum(_)
ReadingSum(texts) ==
    IF texts = <<>> THEN 0
    ELSE (IF Head(texts) = Read15 THEN 1500000 ELSE IF Head(texts) = Read25 THEN 2500000 ELSE 0)
         + ReadingSum(Tail(texts))

\* The last call was perform_measurement_statistics on a connected multimeter
\* with a count the method accepts.
StatisticsRan ==
    /\ last.op = "dmm.perform_measurement_statistics"
    /\ dmm.connected /\ last.args.measurement_count >= 2

\* C11 as stated: exactly measurement_count attempts are made; the result is
\* built from the attempts that gave a value only, its count is their number,
\* and fewer than two of them give None.
C11_AttemptsAndSamples ==
    StatisticsRan
        => LET good == SelectSeq(last.args.reads, IsReading)
           IN  /\ Attempts(last.log) = last.args.measurement_count
               /\ Len(good) < 2 => last.ret = "None"
               /\ Len(good) >= 2 =>
                     /\ last.ret = "Dict"
                     /\ Get(last.val).count = Len(good)
                     /\ Get(last.val).sum = ReadingSum(good)

\* C11 as the code has it: the above for an interval that is not negative;
\* with a negative interval the first sample that succeeds before the last
\* attempt ends the call with None (time.sleep raises).
C11_AttemptsAndSamplesNonNegative ==
    StatisticsRan
        => LET good == SelectSeq(last.args.reads, IsReading)
               n    == last.args.measurement_count
           IN  IF last.args.measurement_interval >= 0
               THEN /\ Attempts(last.log) = n
                    /\ Len(good) < 2 => last.ret = "None"
                    /\ Len(good) >= 2 =>
                          /\ last.ret = "Dict"
                          /\ Get(last.val).count = Len(good)
                          /\ Get(last.val).sum = ReadingSum(good)
               ELSE IF \E i \in 1..(n - 1) : IsReading(last.args.reads[i])
               THEN /\ last.ret = "None"
                    /\ Attempts(last.log)
                         = CHOOSE i \in 1..(n - 1) :
                              /\ IsReading(last.args.reads[i])
                              /\ \A j \in 1..(i - 1) : ~IsReading(last.args.reads[j])
               ELSE /\ last.ret = "None"
                    /\ Attempts(last.log) = n

\* C11 happens: three attempts, the second answered with an error text, and
\* a result built from the two others.
C11_Witness ==
    /\ StatisticsRan
    /\ last.args.measurement_count = 3 /\ last.args.measurement_interval = 100
    /\ last.args.reads = <<Read15, ReadErr, Read25>>
    /\ last.ret = "Dict" /\ Get(last.val).count = 2

\* The last call was disable_channel_output on a connected session, for a
\* channel of the model whose output was off already.
DisabledAgain ==
    /\ last.op = "psu.disable_channel_output"
    /\ last.pre.connected
    /\ ChannelValid(psu, last.args.channel)
    /\ ~last.pre.out[last.args.channel]

Connected == last.op = "psu.connect" /\ last.ret = "True" /\ psu.connected

\* C13: right after a successful connect() the session holds one channel
\* record for each channel 1..max_channels and no other, each with voltage 0,
\* the current limit the channels are initialised to, and enabled False.
C13_RecordsAfterConnect ==
    Connected =>
        \A c \in ChannelIds :
            IF c \in 1..psu.max_channels
            THEN /\ psu.configs[c] # None
                 /\ Get(psu.configs[c]).voltage = 0
                 /\ Get(psu.configs[c]).current_limit = InitCurrent
                 /\ ~Get(psu.configs[c]).enabled
            ELSE psu.configs[c] = None

\* C13 happens: a first connect() has returned True and the channels of the
\* instrument are at 0 V, 0.1 A, output off.
C13_Witness ==
    /\ Connected /\ ~last.pre.connected
    /\ \A c \in 1..psu.max_channels :
         psuHw.volt[c] = 0 /\ psuHw.curr[c] = InitCurrent /\ ~psuHw.out[c]

\* The limits the session has in force.
Limits == <<psu.max_channels, psu.max_voltage, psu.max_current>>

\* C14: a connect() answered with an unrecognised or missing model field
\* returns True, and the limits afterwards are 3 channels, 30 V, 3 A whichever
\* model the session was connected to before.
C14_UnknownModelDefaults ==
    (last.op = "psu.connect" /\ last.args.idn \in {IdnOther, IdnShort})
        => /\ last.ret = "True"
           /\ Limits = <<3, 30 * UV, 3 * UV>>

\* C14 happens: a session that was connected before has connected to an
\* instrument whose identification has no model field.
C14_Witness ==
    /\ last.op = "psu.connect" /\ last.args.idn = IdnShort
    /\ last.pre.connected /\ last.ret = "True"

\* C18: after a successful connect() the limits are those of the table entry
\* the model field matches: 2230 and 2231 give 3 / 30 V / 3 A, 2280 gives
\* 1 / 72 V / 6 A, 2260 and 2268 give 1 / 600 V / 10 A.
C18_LimitsByModel ==
    Connected =>
        /\ last.args.idn \in {Idn2230, Idn2231} => Limits = <<3, 30 * UV, 3 * UV>>
        /\ last.args.idn = Idn2280 => Limits = <<1, 72 * UV, 6 * UV>>
        /\ last.args.idn \in {Idn2260, Idn2268} => Limits = <<1, 600 * UV, 10 * UV>>

\* C18 happens: a session that was connected to another model has connected
\* to a 2230-30-3 and has 3 channels, 30 V, 3 A.
C18_Witness ==
    /\ Connected /\ last.pre.connected /\ last.args.idn = Idn2230
    /\ IdnModel(Idn2230) = <<"2","2","3","0","-","3","0","-","3">>
    /\ Limits = <<3, 30 * UV, 3 * UV>>

\* The last call was a measure_channel_output that returned a pair.
Measured == last.op = "psu.measure_channel_output" /\ last.ret = "Tuple"

\* C15: measure_channel_output reports a current of exactly 0 when the
\* output of the channel is off, whatever current the instrument read.
C15_ZeroCurrentWhenOff ==
    (Measured /\ ~psuHw.out[last.args.channel]) => Get(last.val)[2] = 0

\* C15 happens: the output of the channel is off and the instrument has
\* answered the current query with 1.2 mA.
C15_Witness ==
    /\ Measured /\ ~psuHw.out[last.args.channel]
    /\ last.args.meas.current = MeasStale

\* The last call was a configure_channel that passed the validation.
ConfigurePassed ==
    /\ last.op = "psu.configure_channel"
    /\ last.ret \notin {"NotConnected", "ValueError"}

\* The i-th transport call of the last method wrote a setpoint.
SetpointWrite(i) == last.log[i].cmd \in {"VOLT", "CURR", "OVP:LEV"}

\* C20: a configure_channel that passed validation has sent the output-off
\* command, with the target channel selected, before each voltage, current-limit
\* or OVP setpoint it wrote.
C20_DisableBeforeSetpoints ==
    ConfigurePassed =>
        \A i \in 1..Len(last.log) :
            SetpointWrite(i) =>
                \E j \in 2..(i - 1) :
                    /\ last.log[j].cmd = "OUTP" /\ last.log[j].arg = 0
                    /\ last.log[j - 1].cmd = "INST:SEL"
                    /\ last.log[j - 1].arg = last.args.channel

\* C20 happens: the output of channel 1 was on, and a configure_channel(1, ...)
\* whose first transport call raised has written the voltage setpoint.
C20_Witness ==
    /\ ConfigurePassed /\ last.pre.out[1] /\ last.args.channel = 1
    /\ ~last.log[1].ok
    /\ \E i \in 1..Len(last.log) : last.log[i].cmd = "VOLT" /\ last.log[i].ok

\* C19: while the session has an instrument handle, the timeout of the handle
\* after an operation is the timeout before it, whether the operation returned
\* a result or failed; no operation leaves another value in force.
C19_TimeoutKept ==
    [][/\ (dmm.timeout # None /\ dmm'.timeout # None) => dmm'.timeout = dmm.timeout
       /\ dmm'.inst # "None" => dmm'.timeout = Some(DmmTimeoutMs)]_vars

\* C19 happens: a statistics run on a connected session has ended in its
\* except clause, and the timeout is the one set by connect.
C19_Witness ==
    /\ last.op = "dmm.perform_measurement_statistics" /\ last.pre.connected
    /\ last.args.measurement_interval < 0 /\ last.args.reads[1] = Read25
    /\ last.ret = "None"
    /\ dmm.timeout = Some(DmmTimeoutMs)

\* The last call was a measure() on a connected session that received text.
MeasureGot(text) ==
    last.op = "dmm.measure" /\ last.pre.connected /\ last.args.reads = <<text>>

\* The number in the answers that hold one: its first numeric token.
Token(text) == IF text = Read15 THEN 1500000 ELSE 2500000

\* C16: a measure() that received an error text with -113 in it, or a text
\* with no number, returns None and not the number in the text; the session
\* stays connected, and a measure() that receives a well-formed answer on a
\* transport without faults returns its value, also right after such a failure.
C16_MalformedIsFailure ==
    \A text \in MeasureTexts :
        MeasureGot(text) =>
            /\ dmm.connected
            /\ text \in {ReadErr, ReadText} => (last.ret = "None" /\ last.val = None)
            /\ (text \in {Read15, Read25, ReadPadded} /\ last.args.fault = NoFault)
                 => (last.ret = "Float" /\ last.val = Some(Token(text)))

\* C16 happens: a measure() that received the error text returned None, and
\* the next measure() received 2.5 and returned it.
C16_Witness ==
    /\ MeasureGot(Read25) /\ last.ret = "Float" /\ last.val = Some(2500000)
    /\ last.pre.reads = <<ReadErr>>
    /\ last.pre.ret = "None"
    /\ dmm.connected

\* C17: on a transport without faults measure() returns the first numeric
\* token of the answer, with blanks around it, in scientific notation, with
\* text after it or before it, and returns None for an answer with no number.
C17_FirstNumericToken ==
    \A text \in MeasureTexts :
        (MeasureGot(text) /\ last.args.fault = NoFault) =>
            /\ text \in {Read15, Read25, ReadPadded, ReadUnit, ReadPrefixed}
                 => (last.ret = "Float" /\ last.val = Some(Token(text)))
            /\ text = ReadText => last.ret = "None"

\* C17 happens: a measure() on a transport without faults has received "2.5V".
C17_Witness ==
    MeasureGot(ReadUnit) /\ last.args.fault = NoFault /\ dmm.connected

\* The i-th transport call of the last method wrote a current limit or an
\* over-voltage level, and the instrument took it.
LimitWritten(i) == last.log[i].cmd \in {"CURR", "OVP:LEV"} /\ last.log[i].ok

\* C21: a configure_channel never writes a current limit or an OVP level to
\* a channel whose output is on.  A call without enable_output that returns
\* with the output on never had it off, so it wrote no such setpoint.
C21_NoSetpointWhileOn ==
    (ConfigurePassed /\ ~last.args.enable_output /\ psuHw.out[last.args.channel])
        => \A i \in 1..Len(last.log) : ~LimitWritten(i)

\* C21 happens: the output of channel 1 was on, the disable step of a
\* configure_channel(1, ...) did not switch it off, and the call went on to
\* write the current limit.
C21_Witness ==
    /\ ConfigurePassed /\ last.args.channel = 1 /\ ~last.args.enable_output
    /\ last.pre.out[1] /\ psuHw.out[1]
    /\ \E i \in 1..Len(last.log) : last.log[i].cmd = "CURR" /\ last.log[i].ok

\* The voltages a transport log wrote, in order.
IsVoltWrite(entry) == entry.cmd = "VOLT"
VoltWrites(log) ==
    [k \in 1..Len(SelectSeq(log, IsVoltWrite)) |-> SelectSeq(log, IsVoltWrite)[k].arg]

\* w is a ramp from start to target: every write — the first one seen from
\* start — is nearer to the target than the one before it and at most one
\* step away from it, and the last write is the target.
IsRamp(w, start, target) ==
    /\ Len(w) >= 2 /\ w[Len(w)] = target
    /\ \A k \in 1..Len(w) :
         LET before == IF k = 1 THEN start ELSE w[k - 1] IN
         /\ Abs(w[k] - before) <= MaxVoltageStep
         /\ w[k] # before
         /\ (target > start) => w[k] > before
         /\ (target < start) => w[k] < before

\* C22: a configure_channel that read the present setpoint writes the
\* requested voltage in one step when it is at most 5 V away, and otherwise a
\* ramp of writes from the present setpoint to the requested voltage.
C22_RampedChange ==
    [][(last'.op = "psu.configure_channel" /\ last'.ret = "True")
        => LET start  == psuHw.volt[last'.args.channel]
               target == last'.args.voltage
               w      == VoltWrites(last'.log)
           IN  IF Abs(target - start) <= MaxVoltageStep
               THEN w = <<target>>
               ELSE IsRamp(w, start, target)]_vars

\* C22 happens: a change from 0 V to 12 V was written as 4 V, 8 V, 12 V.
C22_Witness ==
    /\ last.op = "psu.configure_channel" /\ last.ret = "True"
    /\ last.args.voltage = 12 * UV
    /\ VoltWrites(last.log) = <<4 * UV, 8 * UV, 12 * UV>>

\* The voltage and current limits of the supported models, by identification.
ModelMaxVoltage(idn) ==
    IF idn \in {Idn2230, Idn2231} THEN 30 * UV
    ELSE IF idn = Idn2280 THEN 72 * UV ELSE 600 * UV
ModelMaxCurrent(idn) ==
    IF idn \in {Idn2230, Idn2231} THEN 3 * UV
    ELSE IF idn = Idn2280 THEN 6 * UV ELSE 10 * UV

EnableSent(i) == last.log[i].cmd = "OUTP" /\ last.log[i].arg = 1

\* C24: a configure_channel sends the output-enable command only with
\* enable_output True and only as its last step: the voltage, current-limit
\* and OVP writes and the read-back of the setpoints come before it, and only
\* the read-back of the output state comes after it.  A call with
\* enable_output False that returns True leaves the output of the channel off.
C24_EnableLast ==
    ConfigurePassed =>
        /\ \A i \in 1..Len(last.log) :
             EnableSent(i) =>
                /\ last.args.enable_output
                /\ \E j \in 1..(i - 1) : last.log[j].cmd = "CURR?" /\ last.log[j].ok
                /\ \A j \in (i + 1)..Len(last.log) : last.log[j].cmd = "OUTP?"
        /\ (~last.args.enable_output /\ last.ret = "True")
             => ~psuHw.out[last.args.channel]

\* C24 happens: the output of channel 1 was on and a configure_channel(1, ...)
\* with enable_output False has returned True.
C24_Witness ==
    /\ ConfigurePassed /\ last.args.channel = 1 /\ ~last.args.enable_output
    /\ last.pre.out[1] /\ last.ret = "True"

\* C25: a configure_channel with enable_output True returns True only when
\* the output of the channel is on.
C25_TrueMeansEnabled ==
    (ConfigurePassed /\ last.args.enable_output /\ last.ret = "True")
        => psuHw.out[last.args.channel]

\* C25 happens: in a configure_channel with enable_output True the last
\* transport call, one of the enable step, raised and the output is off.
C25_Witness ==
    /\ ConfigurePassed /\ last.args.enable_output
    /\ \E i \in 1..Len(last.log) : last.log[i].cmd = "CURR?" /\ last.log[i].ok
    /\ ~last.log[Len(last.log)].ok
    /\ ~psuHw.out[last.args.channel]

\* The last call was an enable_channel_output or a disable_channel_output
\* that passed the connection and channel checks.
OutputSwitched ==
    /\ last.op \in {"psu.enable_channel_output", "psu.disable_channel_output"}
    /\ last.ret \notin {"NotConnected", "ValueError"}

\* The output state the last call asked for.
Requested == last.op = "psu.enable_channel_output"

SwitchOffAttempted(c) ==
    \E i \in 1..Len(last.log) :
        /\ last.log[i].cmd = "INST:SEL" /\ last.log[i].arg = c
        /\ \A j \in 1..Len(last.log) : last.log[j].cmd = "inst.close" => i < j

\* C27: a disconnect() of a connected power supply has attempted to switch
\* off the output of every channel 1..max_channels before it closed the
\* instrument handle, whichever of its transport calls raised.
C27_AllChannelsAttempted ==
    (last.op = "psu.disconnect" /\ last.pre.connected)
        => \A c \in 1..psu.max_channels : SwitchOffAttempted(c)

\* C27 happens: in a disconnect() the select of channel 1 raised, the outputs
\* of channels 2 and 3 were switched off, and the handle was closed.
C27_Witness ==
    /\ last.op = "psu.disconnect" /\ last.pre.connected
    /\ last.log[1].cmd = "INST:SEL" /\ last.log[1].arg = 1 /\ ~last.log[1].ok
    /\ \A c \in {2, 3} :
         \E i \in 2..Len(last.log) :
            /\ last.log[i].cmd = "OUTP" /\ last.log[i].arg = 0 /\ last.log[i].ok
            /\ last.log[i - 1].cmd = "INST:SEL" /\ last.log[i - 1].arg = c
    /\ \E j \in 1..Len(last.log) : last.log[j].cmd = "inst.close" /\ last.log[j].ok

\* The last transport call of the last method was an operation-complete
\* query that was answered.
EndedWithOpc ==
    /\ last.log # <<>>
    /\ last.log[Len(last.log)].cmd = "*OPC?" /\ last.log[Len(last.log)].ok

\* The oscilloscope's connect() sends its commands through SCPIWrapper.write
\* and query, which go to the transport only while is_connected is True: a
\* command of the sequence in the log was sent with the flag up.
SentWhileConnected ==
    \E i \in 1..Len(last.log) : last.log[i].cmd \in {"*IDN?", "*CLS", "*OPC?"}

\* C28: for each session class a connect() that leaves is_connected True has
\* ended with an answered operation-complete query, and a connect() that
\* ended in failure leaves is_connected False and has had it True at no point
\* of its sequence.
C28_ConnectedOnlyAfterOpc ==
    /\ last.op = "psu.connect"
         => /\ psu.connected => (last.ret = "True" /\ EndedWithOpc)
            /\ last.ret # "True" => ~psu.connected
    /\ last.op = "dmm.connect"
         => /\ dmm.connected => (last.ret = "True" /\ EndedWithOpc)
            /\ last.ret # "True" => ~dmm.connected
    /\ last.op = "scope.connect"
         => /\ scope.connected => (last.ret = "True" /\ EndedWithOpc)
            /\ last.ret # "True" => (~scope.connected /\ ~SentWhileConnected)

\* C28 happens: an oscilloscope connect() whose identification query raised
\* has ended in failure.
C28_Witness ==
    /\ last.op = "scope.connect" /\ last.ret # "True"
    /\ \E i \in 1..Len(last.log) : last.log[i].cmd = "*IDN?" /\ ~last.log[i].ok

\* A measurement on a connected session whose reading query raised a
\* VisaIOError with "timeout" in its text.
ReadTimedOut ==
    /\ last.op \in {"dmm.measure", "dmm.measure_dc_voltage"}
    /\ last.pre.connected /\ last.args.timed_out
    /\ \E i \in DOMAIN last.log : last.log[i].cmd = "READ?" /\ ~last.log[i].ok

\* C29: a measurement whose reading query timed out sends an abort after the
\* query, returns None and does not raise, also when the abort faults, and
\* leaves the session connected; a measure() without faults right after a
\* measure() that timed out returns the number the instrument answers.
C29_TimeoutAborts ==
    /\ ReadTimedOut =>
          /\ last.ret = "None" /\ dmm.connected
          /\ Len(last.log) >= 2
          /\ last.log[Len(last.log)].cmd = "ABOR"
          /\ last.log[Len(last.log) - 1].cmd = "READ?"
    /\ ( /\ last.op = "dmm.measure" /\ last.pre.connected /\ last.pre.timed_out
         /\ last.args.fault = NoFault /\ last.args.reads = <<Read25>> ) =>
          last.ret = "Float" /\ last.val = Some(Token(Read25))

\* C29 happens: a measure() without faults has returned a reading right after
\* a measure() whose reading query timed out.
C29_Witness ==
    /\ last.op = "dmm.measure" /\ last.pre.connected /\ last.pre.timed_out
    /\ last.args.fault = NoFault /\ last.ret = "Float"

\* A measurement on a connected session in which one write of the range, the
\* resolution or the integration time raised, on a transport that works again
\* for the calls after it.
OptionalWriteFailed ==
    /\ last.op \in {"dmm.measure", "dmm.measure_dc_voltage"}
    /\ last.pre.connected /\ ~last.args.fault.sticky
    /\ \E i \in DOMAIN last.log :
         /\ last.log[i].cmd \in {"SENS:RANG", "SENS:RES", "SENS:NPLC"}
         /\ ~last.log[i].ok

\* C30: in measure() and in measure_dc_voltage(), when the write of the range,
\* the resolution or the integration time raises, the reading query is still
\* sent and the number the instrument answers is returned.
C30_OptionalWriteTolerated ==
    (OptionalWriteFailed /\ last.args.reads = <<Read25>>) =>
        /\ \E i \in DOMAIN last.log : last.log[i].cmd = "READ?" /\ last.log[i].ok
        /\ last.ret = "Float" /\ last.val = Some(Token(Read25))

\* C30 happens: a measure_dc_voltage() whose resolution write raised has ended.
C30_Witness ==
    /\ OptionalWriteFailed /\ last.op = "dmm.measure_dc_voltage"
    /\ \E i \in DOMAIN last.log : last.log[i].cmd = "SENS:RES" /\ ~last.log[i].ok

\* The supported ranges of a function with a range table.
Supported(function) ==
    IF function \in {"VOLT:DC", "VOLT:AC"} THEN VoltageRanges
    ELSE IF function \in {"CURR:DC", "CURR:AC"} THEN CurrentRanges
    ELSE ResistanceRanges

\* A measurement with a range, on a connected session without faults.
RangeAsked ==
    /\ last.op \in {"dmm.measure", "dmm.measure_dc_voltage"}
    /\ last.pre.connected /\ last.args.fault = NoFault
    /\ last.args.measurement_range # None

\* C31: the range written for a voltage, current or resistance function is a
\* supported one; it is the range asked for when that is supported, else the
\* smallest supported range not below it, else the largest supported range;
\* and the measurement returns the reading.
C31_RangeSnapped ==
    RangeAsked =>
        LET asked == Get(last.args.measurement_range)
            valid == Supported(last.args.function)
            holds == {r \in valid : r >= asked}
        IN  /\ \E i \in DOMAIN last.log :
                 /\ last.log[i].cmd = "SENS:RANG" /\ last.log[i].ok
                 /\ last.log[i].arg \in valid
                 /\ holds # {} =>
                        /\ last.log[i].arg \in holds
                        /\ \A r \in holds : last.log[i].arg <= r
                 /\ holds = {} => \A r \in valid : r <= last.log[i].arg
            /\ \A i \in DOMAIN last.log : last.log[i].cmd # "SENS:RANG:AUTO"
            /\ last.ret = "Float" /\ last.val = Some(Token(Read25))

\* C31 happens: a resistance measure() with a range between two entries of
\* the table has written the upper one.
C31_Witness ==
    /\ RangeAsked /\ last.op = "dmm.measure" /\ last.args.function = "RES"
    /\ last.args.measurement_range = Some(5 * UV)
    /\ \E i \in DOMAIN last.log : last.log[i].cmd = "SENS:RANG" /\ last.log[i].arg = 10 * UV

\* The waits of the interval in a transport log.
Waits(log) == {i \in DOMAIN log : log[i].cmd = "sleep"}

\* C32: a statistics run with an interval that is not negative waits
\* measurement_count - 1 times, once between every two consecutive attempts,
\* whether the attempts give a value or not, never before the first attempt
\* and never after the last.
C32_WaitBetweenAttempts ==
    (StatisticsRan /\ last.args.measurement_interval >= 0) =>
        /\ Cardinality(Waits(last.log)) = last.args.measurement_count - 1
        /\ \A i \in Waits(last.log) :
             /\ last.log[i].arg = last.args.measurement_interval
             /\ i > 1 /\ i < Len(last.log)
             /\ last.log[i - 1].cmd = "READ?" /\ last.log[i + 1].cmd = "*CLS"

\* C32 happens: a statistics run of three attempts whose first attempt gave no
\* value has ended.
C32_Witness ==
    /\ StatisticsRan
    /\ last.args.measurement_count = 3 /\ last.args.measurement_interval = 100
    /\ last.args.reads = <<ReadErr, Read15, Read25>>
    /\ Cardinality(Waits(last.log)) = 1

\* The commands of a measure() up to the reading, by its arguments.
MeasureOrder(args) ==
    <<"*CLS", "ABOR", "SENS:FUNC">>
    \o (IF args.measurement_range = None THEN <<"SENS:RANG:AUTO">> ELSE <<"SENS:RANG">>)
    \o (IF args.resolution = None THEN <<>> ELSE <<"SENS:RES">>)
    \o (IF args.nplc = None THEN <<>> ELSE <<"SENS:NPLC">>)
    \o <<"READ?">>

\* A measure() that sent the reading query.
ReadingReached ==
    /\ last.op = "dmm.measure"
    /\ \E i \in DOMAIN last.log : last.log[i].cmd = "READ?"

\* C33: a measure() that reaches the reading has sent, in this order, the
\* clear, the abort, the function select with the function asked for, the
\* range or auto-range, the resolution when one is given, the integration
\* time when one is given, and the reading query; the query is sent once,
\* and nothing but the abort of a failed reading follows it.
C33_CommandOrder ==
    ReadingReached =>
        LET order == MeasureOrder(last.args)
        IN  /\ Len(last.log) >= Len(order)
            /\ \A i \in DOMAIN order : last.log[i].cmd = order[i]
            /\ last.log[3].arg = last.args.function
            /\ \A i \in DOMAIN last.log :
                 i > Len(order) => (last.log[i].cmd = "ABOR" /\ last.ret = "None")
            /\ Len(last.log) <= Len(order) + 1

\* C33 happens: a measure() with range, resolution and integration time has
\* returned a reading after the write of its resolution raised.
C33_Witness ==
    /\ ReadingReached /\ last.ret = "Float"
    /\ last.args.nplc # None /\ last.args.measurement_range # None
    /\ \E i \in DOMAIN last.log : last.log[i].cmd = "SENS:RES" /\ ~last.log[i].ok

\* C34: no oscilloscope session has more than one command exchange in flight,
\* whatever the worker threads and the channel-display toggle are doing.
C34_OneExchangeInFlight ==
    \A s \in DOMAIN gui.sessions : gui.sessions[s].busy <= 1

\* C34 happens: two worker threads are inside a driver call on one session.
C34_Witness ==
    \E s \in DOMAIN gui.sessions, v, w \in 1..MaxWorkers :
        /\ v # w /\ gui.sessions[s].busy = 2
        /\ gui.workers[v].target = s /\ gui.workers[w].target = s
        /\ gui.workers[v].kind # "connect" /\ gui.workers[w].kind # "connect"

\* C39: a session that is connected is the one the GUI holds, while the GUI
\* runs: no connected session is replaced or left behind at exit with no
\* disconnect() called on it.
C39_NoSessionDropped ==
    \A s \in DOMAIN gui.sessions :
        gui.sessions[s].connected => (gui.running /\ gui.oscilloscope = s)

\* C39 happens: a session connected by its worker thread is no longer the one
\* the GUI holds, and disconnect() was never called on it.
C39_Witness ==
    \E s \in DOMAIN gui.sessions :
        /\ gui.sessions[s].connected /\ ~gui.sessions[s].disconnected
        /\ gui.oscilloscope # s /\ gui.oscilloscope # 0

\* The last call was the test sequence.
SequenceRan == last.op = "auto._execute_test_sequence"

\* The driver calls the sequence made, and what each returned.
Steps == Get(last.val)
StepReturned(step, ret) ==
    \E k \in DOMAIN Steps : Steps[k].step = step /\ Steps[k].ret = ret

\* C35: in a test sequence the output-enable command is sent only after the
\* configuration has returned True with every setpoint written before the
\* command and no enable among the configuration's own commands, and, with a
\* multimeter, after a resistance reading has been received; when the
\* configuration or the resistance measurement fails the sequence returns
\* False and the command is not in its log.
C35_EnableAfterChecks ==
    SequenceRan =>
        /\ \A i \in DOMAIN last.log : EnableSent(i) =>
              /\ Steps[1] = [step |-> "configure", ret |-> "True"]
              /\ \A j \in DOMAIN last.log :
                    last.log[j].cmd \in {"VOLT", "CURR", "OVP:LEV", "OVP:STAT"} => j < i
              /\ last.args.config.multimeter =>
                    /\ Steps[2] = [step |-> "resistance", ret |-> "Float"]
                    /\ \E j \in 1..(i - 1) : last.log[j].cmd = "READ?" /\ last.log[j].ok
        /\ ( \/ ~StepReturned("configure", "True")
             \/ (last.args.config.multimeter /\ ~StepReturned("resistance", "Float")) ) =>
              /\ last.ret = "False"
              /\ \A i \in DOMAIN last.log : ~EnableSent(i)

\* C35 happens: a sequence with a multimeter whose resistance measurement gave
\* no value has returned after a configuration that succeeded.
C35_Witness ==
    /\ SequenceRan /\ last.args.config.multimeter
    /\ StepReturned("configure", "True") /\ StepReturned("resistance", "None")
    /\ last.ret = "False"

\* C36: a test sequence that returns False after its output-enable command
\* reached the instrument leaves the output of the channel off.
C36_OffAfterFailure ==
    ( /\ SequenceRan /\ last.ret = "False"
      /\ \E i \in DOMAIN last.log : EnableSent(i) /\ last.log[i].ok ) =>
        ~psuHw.out[last.args.config.channel]

\* C36 happens: a sequence has returned False after enable_channel_output
\* returned True.
C36_Witness ==
    /\ SequenceRan /\ last.ret = "False"
    /\ StepReturned("enable", "True")
    /\ psuHw.out[last.args.config.channel]

\* The stored record of channel c says what the output of the channel is.
FlagMatches(c) ==
    psu.configs[c] # None => Get(psu.configs[c]).enabled = psuHw.out[c]

\* C37: while the power-supply session is connected, the enabled flag of every
\* stored channel record equals the output state of that channel on the
\* instrument, after configure, enable and disable calls with or without
\* transport faults.
C37_FlagMatchesOutput ==
    psu.connected => \A c \in ChannelIds : FlagMatches(c)

\* C37 happens: an enable_channel_output() on a configured channel whose
\* output follows the commands has ended after its read-back query raised.
C37_Witness ==
    /\ last.op = "psu.enable_channel_output" /\ last.pre.connected
    /\ last.args.channel \notin psuHw.stuck
    /\ psu.configs[last.args.channel] # None
    /\ \E i \in DOMAIN last.log : last.log[i].cmd = "OUTP?" /\ ~last.log[i].ok
    /\ \E i \in DOMAIN last.log : EnableSent(i) /\ last.log[i].ok


\* C38: after connect() and disconnect() calls on a transport without faults,
\* connect() on a connected session included, the session has let go of no
\* handle that is still open: every handle it opened and no longer references
\* has been closed.
ConnectOps ==
    {"psu.connect", "psu.disconnect", "dmm.connect", "dmm.disconnect",
     "scope.connect", "scope.disconnect"}

C38_NoOpenHandleDropped ==
    last.op \in ConnectOps => last.dropped = 0

\* C38 happens: connect() succeeded on a multimeter session that was connected.
C38_Witness ==
    /\ last.op = "dmm.connect" /\ last.pre.connected /\ last.ret = "True"
    /\ last.opened = 2 /\ last.closed = 0

====
